---- MODULE Spec2Model ----
(***************************************************************************)
(* Vector similarity retrieval with metadata filtering: the server-hosted  *)
(* store (src/rag), the flat-file store (src/file_rag), the ingestion      *)
(* path (add_documents) and the export path (data/export_to_files.py).     *)
(***************************************************************************)
EXTENDS Integers, Sequences, FiniteSets, TLC

VARIABLES
    collections,     \* index service: collection name -> [exists, size, points]
    nextId,          \* number of uuid4() values drawn so far
    ingested,        \* history: the documents add_documents was given, by point id
    files,           \* data/vectors/*.json: file name -> [exists, data]
    incidents_data,  \* FileVectorStore.incidents_data
    runbooks_data,   \* FileVectorStore.runbooks_data
    last,            \* the most recent call, its arguments and its outcome
    export_run,      \* export_collection in progress: its loop variables
    wf,              \* IncidentResponseWorkflow.invoke in progress: its graph state
    clients          \* concurrent callers: client -> its call in flight and its locals

vars == <<collections, nextId, ingested, files, incidents_data, runbooks_data, last,
          export_run, wf, clients>>

(***************************************************************************)
(* Bounds of the model.                                                    *)
(***************************************************************************)
MaxPoints == 2      \* points one server collection may hold
MaxIds == 3         \* uuid4() values drawn in one run
MaxRecords == 2     \* records in a pre-existing exported file
MaxLimit == 3       \* largest limit / k passed to a search
Scale == 100        \* a score is the cosine similarity in units of 1/Scale
MaxScrollPoints == 3 \* points of a collection an export scrolls through

(***************************************************************************)
(* Generic helpers.                                                        *)
(***************************************************************************)
Range(s) == {s[i] : i \in 1..Len(s)}

Min(a, b) == IF a <= b THEN a ELSE b

EmptyMap == [k \in {} |-> ""]

\* dict.get(key, default)
Get(d, key, default) == IF key \in DOMAIN d THEN d[key] ELSE default

\* sequences over S of length lo..hi
SeqsOf(S, lo, hi) == UNION {[1..n -> S] : n \in lo..hi}

\* s[:limit] for limit >= 0
Prefix(s, limit) == SubSeq(s, 1, Min(limit, Len(s)))

\* s[::-1]
Reverse(s) == [i \in 1..Len(s) |-> s[Len(s) + 1 - i]]

\* Calls are synchronous and issued one at a time: `last` holds the call
\* that has just completed until its caller has taken the outcome.
NoCall == [call |-> [op |-> "none"], error |-> "none"]

Idle == last.call.op = "none"

\* no export_collection call is running
NoExport == [pc |-> "idle", collection_name |-> "", offset |-> 0, points |-> <<>>,
             requests |-> 0]

\* the callers that run concurrently
Clients == {"c1", "c2"}

\* a caller with no call in flight
NoClient == [pc |-> "idle"]

NoClients == [client \in Clients |-> NoClient]

\* no workflow run is in progress
NoWorkflow == [pc |-> "idle", state |-> EmptyMap, executed |-> <<>>, raised |-> <<>>,
               responses |-> <<>>]

(***************************************************************************)
(* Embeddings.  A vector is [dim, v]: a vector of length dim whose leading *)
(* coordinates are v and whose other coordinates are 0.                    *)
(***************************************************************************)
_get_embedding_dimension(model) ==
    CASE model = "text-embedding-3-large" -> 3072
      [] model = "text-embedding-3-small" -> 1536
      [] model = "text-embedding-ada-002" -> 1536
      [] OTHER -> 1536

DefaultModel == "text-embedding-3-large"

\* The embedding provider: an opaque deterministic function text -> vector.
EmbedCoords(text) ==
    CASE text = "DB pool exhausted" -> <<2, 0>>
      [] text = "DB replica lag" -> <<1, 0>>
      [] text = "OOM on worker pod" -> <<1, 2>>
      [] text = "database connections exhausted" -> <<2, 1>>
      [] text = "pod killed" -> <<0, 1>>
      [] OTHER -> <<1, 1>>

embed_text(model, text) ==
    [dim |-> _get_embedding_dimension(model), v |-> EmbedCoords(text)]

embed_documents(model, texts) ==
    [i \in 1..Len(texts) |-> embed_text(model, texts[i])]

Dot(a, b) == a[1] * b[1] + a[2] * b[2]

ISqrt(n) == CHOOSE r \in 0..Scale : r * r <= n /\ (r + 1) * (r + 1) > n

\* cosine of the angle between a and b, in units of 1/Scale; a vector of
\* zero magnitude is normalised by 1, which gives 0
Cosine(a, b) ==
    LET d == Dot(a, b)
        n == Dot(a, a) * Dot(b, b)
    IN  IF n = 0 \/ d = 0 THEN 0
        ELSE IF d > 0 THEN ISqrt((d * d * Scale * Scale) \div n)
        ELSE 0 - ISqrt((d * d * Scale * Scale) \div n)

\* index orders that sort the scores ascending (ties in any order)
AscendingOrders(scores) ==
    LET n == Len(scores)
    IN  {p \in [1..n -> 1..n] :
            /\ \A i, j \in 1..n : i # j => p[i] # p[j]
            /\ \A i \in 1..n : i < n => scores[p[i]] <= scores[p[i + 1]]}

(***************************************************************************)
(* Documents, metadata values and filters.                                 *)
(***************************************************************************)
Docs ==
    { [content |-> "DB pool exhausted",
       metadata |-> [service |-> "Database", severity |-> "high"]],
      [content |-> "DB replica lag",
       metadata |-> [service |-> "Database", severity |-> "low"]],
      [content |-> "OOM on worker pod",
       metadata |-> [service |-> "Kubernetes", severity |-> "high"]] }

\* Python's == on metadata values: numbers compare by value whatever their
\* type (1 == 1.0 == True), a string equals only the same string.
IsNumber(v) == v \in {"int:1", "float:1.0", "bool:True", "int:0", "bool:False"}

NumericValue(v) == IF v \in {"int:1", "float:1.0", "bool:True"} THEN 1 ELSE 0

PyEq(a, b) == a = b \/ (IsNumber(a) /\ IsNumber(b) /\ NumericValue(a) = NumericValue(b))

\* filters a caller may pass; EmptyMap stands for both None and {}
Filters ==
    { EmptyMap,
      [service |-> "Database"],
      [service |-> "Network"],
      [service |-> "Database", severity |-> "low"],
      [content |-> "DB pool exhausted"] }

QueryTexts == {"database connections exhausted", "pod killed"}

\* query vectors handed to FileVectorStore.search: embeddings of the query
\* texts, one of them from the 1536-dimensional model
QueryVectors ==
    {embed_text("text-embedding-3-large", t) : t \in QueryTexts}
    \cup {embed_text("text-embedding-3-small", "database connections exhausted")}
    \cup {[dim |-> 3072, v |-> <<0, 0>>]}

Limits == 0..MaxLimit

(***************************************************************************)
(* Ingestion: VectorStoreManager.add_documents builds one point per        *)
(* document.  uuid4() is modelled by the number of the draw.               *)
(***************************************************************************)
\* payload = {"content": text, **metadata}
Payload(text, metadata) ==
    [k \in {"content"} \cup DOMAIN metadata |->
        IF k \in DOMAIN metadata THEN metadata[k] ELSE text]

PointStruct(id, vector, payload) == [id |-> id, vector |-> vector, payload |-> payload]

\* variant of BuildPoints: the id is the index in the batch, not a new uuid
BuildPointsIndexed(documents, embeddings, firstId) ==
    [i \in 1..Len(documents) |->
        PointStruct(i, embeddings[i],
                    Payload(Get(documents[i], "content", ""),
                            Get(documents[i], "metadata", EmptyMap)))]

\* the points list built by the loop of add_documents; ids firstId, firstId+1, ...
BuildPoints(documents, embeddings, firstId) ==
    [i \in 1..Len(documents) |->
        PointStruct(firstId + i - 1, embeddings[i],
                    Payload(Get(documents[i], "content", ""),
                            Get(documents[i], "metadata", EmptyMap)))]

(***************************************************************************)
(* Export: export_collection turns every scrolled point into a file        *)
(* record.  str() of an id that is already a string changes nothing.       *)
(***************************************************************************)
ExportPoint(point) ==
    [id |-> point.id,
     text |-> Get(point.payload, "text", ""),
     embedding |-> point.vector,
     metadata |-> point.payload]

ExportPoints(points) == [i \in 1..Len(points) |-> ExportPoint(points[i])]

(***************************************************************************)
(* The flat-file store.                                                    *)
(***************************************************************************)
FileNames == {"incidents.json", "runbooks.json"}

NoFile == [exists |-> FALSE, data |-> <<>>]

\* FileVectorStore._load_data for one file: a missing file leaves the
\* attribute at the [] set by __init__
LoadFile(file) == IF file.exists THEN file.data ELSE <<>>

\* `sub in collection_name.lower()` for the names of the model
FileCollectionNames == {"devops_incidents", "devops_runbooks", "Incident_Runbooks", "metrics"}

LowerContains(name, sub) ==
    \/ sub = "incident" /\ name \in {"devops_incidents", "Incident_Runbooks"}
    \/ sub = "runbook" /\ name \in {"devops_runbooks", "Incident_Runbooks"}

\* variant of SelectSource: an unknown name falls through to the runbooks
SelectSourceDefault(collection_name) ==
    IF LowerContains(collection_name, "incident") THEN "incidents" ELSE "runbooks"

\* the data source search and get_collection_info select
SelectSource(collection_name) ==
    IF LowerContains(collection_name, "incident") THEN "incidents"
    ELSE IF LowerContains(collection_name, "runbook") THEN "runbooks"
    ELSE "unknown"

SourceData(source) ==
    IF source = "incidents" THEN incidents_data
    ELSE IF source = "runbooks" THEN runbooks_data
    ELSE <<>>

ItemMatches(item, filters) ==
    \A key \in DOMAIN filters :
        key \in DOMAIN item.metadata /\ PyEq(item.metadata[key], filters[key])

\* variant of _apply_filters: a record is kept when one key matches
_apply_filters_any(data, filters) ==
    IF DOMAIN filters = {} THEN data
    ELSE SelectSeq(data, LAMBDA item :
            \E key \in DOMAIN filters :
                key \in DOMAIN item.metadata /\ PyEq(item.metadata[key], filters[key]))

\* FileVectorStore._apply_filters
_apply_filters(data, filters) ==
    IF DOMAIN filters = {} THEN data
    ELSE SelectSeq(data, LAMBDA item : ItemMatches(item, filters))

\* variant of FilteredData: no fallback to the full collection
FilteredDataNoFallback(data, filters) == _apply_filters(data, filters)

\* filtered_data: the filtered records, or all of them when none is left
FilteredData(data, filters) ==
    LET matched == _apply_filters(data, filters)
    IN  IF matched = <<>> THEN data ELSE matched

\* variant of cosine_similarity: no shape check, the common leading
\* coordinates are scored
cosine_similarity_unchecked(query_vector, embeddings) ==
    [error |-> "none",
     values |-> [i \in 1..Len(embeddings) |-> Cosine(query_vector.v, embeddings[i].v)]]

\* sklearn's cosine_similarity(query, matrix)[0]: the shapes are checked
\* first and a mismatch raises ValueError before any score is computed
cosine_similarity(query_vector, embeddings) ==
    IF \E i \in 1..Len(embeddings) : embeddings[i].dim # query_vector.dim
    THEN [error |-> "ValueError", values |-> <<>>]
    ELSE [error |-> "none",
          values |-> [i \in 1..Len(embeddings) |-> Cosine(query_vector.v, embeddings[i].v)]]

\* variant of TopIndices: the [::-1] is missing
TopIndicesAscending(similarities, limit) ==
    {Prefix(p, limit) : p \in AscendingOrders(similarities)}

\* np.argsort(similarities)[::-1][:limit]; argsort's default sort is not
\* stable, so every ascending order is a possible outcome
TopIndices(similarities, limit) ==
    {Prefix(Reverse(p), limit) : p \in AscendingOrders(similarities)}

FileResult(item, score) ==
    [id |-> item.id,
     score |-> score,
     payload |-> item.metadata,
     metadata |-> item.metadata,
     text |-> item.text]

FileSearchCall(collection_name, query_vector, limit, filters) ==
    [op |-> "search", collection_name |-> collection_name,
     query_vector |-> query_vector, limit |-> limit, filters |-> filters]

\* FileVectorStore.search: the possible outcomes [call, error, log,
\* similarities, result] once `data` is the list the name selected
SearchOutcomesOn(data, collection_name, query_vector, limit, filters) ==
    LET source == SelectSource(collection_name)
        filtered_data == FilteredData(data, filters)
        sims == cosine_similarity(query_vector,
                                  [i \in 1..Len(filtered_data) |-> filtered_data[i].embedding])
        call == FileSearchCall(collection_name, query_vector, limit, filters)
    IN  IF source = "unknown"
        THEN {[call |-> call, error |-> "none", log |-> "Unknown collection",
               similarities |-> <<>>, result |-> <<>>]}
        ELSE IF data = <<>>
        THEN {[call |-> call, error |-> "none", log |-> "No data available",
               similarities |-> <<>>, result |-> <<>>]}
        ELSE IF sims.error # "none"
        THEN {[call |-> call, error |-> sims.error, log |-> "",
               similarities |-> <<>>, result |-> <<>>]}
        ELSE {[call |-> call, error |-> "none", log |-> "",
               similarities |-> sims.values,
               result |-> [n \in 1..Len(top_indices) |->
                              FileResult(filtered_data[top_indices[n]],
                                         sims.values[top_indices[n]])]] :
                top_indices \in TopIndices(sims.values, limit)}

\* the outcomes of FileVectorStore.search on the lists the store holds now
SearchOutcomes(collection_name, query_vector, limit, filters) ==
    SearchOutcomesOn(SourceData(SelectSource(collection_name)),
                     collection_name, query_vector, limit, filters)

\* a call of FileVectorStore.search
search(collection_name, query_vector, limit, filters) ==
    \E outcome \in SearchOutcomes(collection_name, query_vector, limit, filters) :
        last' = outcome

\* variant of Search: the filter is applied to the stored list in place
SearchFilteringInPlace ==
    /\ Idle
    /\ \E collection_name \in FileCollectionNames, query_vector \in QueryVectors,
          limit \in Limits, filters \in Filters :
            /\ search(collection_name, query_vector, limit, filters)
            /\ incidents_data' = IF SelectSource(collection_name) = "incidents"
                                 THEN _apply_filters(incidents_data, filters)
                                 ELSE incidents_data
            /\ runbooks_data' = IF SelectSource(collection_name) = "runbooks"
                                THEN _apply_filters(runbooks_data, filters)
                                ELSE runbooks_data
    /\ UNCHANGED <<collections, nextId, ingested, files, export_run, wf, clients>>

Search ==
    /\ Idle
    /\ \E collection_name \in FileCollectionNames, query_vector \in QueryVectors,
          limit \in Limits, filters \in Filters :
            search(collection_name, query_vector, limit, filters)
    /\ UNCHANGED <<collections, nextId, ingested, files, incidents_data, runbooks_data, export_run, wf, clients>>

\* variant of get_collection_info: the status does not depend on the count
FileVectorStore_get_collection_info_ok(collection_name) ==
    LET count == Len(SourceData(SelectSource(collection_name)))
    IN  last' = [call |-> [op |-> "get_collection_info", collection_name |-> collection_name],
                 error |-> "none",
                 result |-> [points_count |-> count, status |-> "ok"]]

\* the dictionary get_collection_info returns for a list of `count` records
FileCollectionInfo(count) ==
    [points_count |-> count, status |-> IF count > 0 THEN "ok" ELSE "empty"]

\* FileVectorStore.get_collection_info
FileVectorStore_get_collection_info(collection_name) ==
    LET count == Len(SourceData(SelectSource(collection_name)))
    IN  last' = [call |-> [op |-> "get_collection_info", collection_name |-> collection_name],
                 error |-> "none",
                 result |-> FileCollectionInfo(count)]

GetCollectionInfo ==
    /\ Idle
    /\ \E collection_name \in FileCollectionNames :
            FileVectorStore_get_collection_info(collection_name)
    /\ UNCHANGED <<collections, nextId, ingested, files, incidents_data, runbooks_data, export_run, wf, clients>>

(***************************************************************************)
(* The index service (Qdrant) as the client calls of VectorStoreManager    *)
(* see it.                                                                 *)
(***************************************************************************)
StoreTypes == {"incidents", "runbooks"}

\* self.collection_name = f"devops_{store_type}"
CollectionName(store_type) ==
    IF store_type = "incidents" THEN "devops_incidents" ELSE "devops_runbooks"

CollectionNames == {CollectionName(t) : t \in StoreTypes}

NoCollection == [exists |-> FALSE, size |-> 0, points |-> <<>>]

\* client.get_collections(): the names of the existing collections
get_collections(colls) == {name \in DOMAIN colls : colls[name].exists}

\* client.upsert: a point whose id is already stored is replaced in place,
\* any other point is added
RECURSIVE UpsertPoints(_, _)
UpsertPoints(stored, points) ==
    IF points = <<>> THEN stored
    ELSE LET p == Head(points)
             next == IF \E i \in 1..Len(stored) : stored[i].id = p.id
                     THEN [i \in 1..Len(stored) |->
                              IF stored[i].id = p.id THEN p ELSE stored[i]]
                     ELSE Append(stored, p)
         IN  UpsertPoints(next, Tail(points))

\* variant of PayloadMatches: the conditions are ORed (should instead of must)
PayloadMatchesAny(payload, filter_dict) ==
    \E key \in DOMAIN filter_dict :
        key \in DOMAIN payload /\ payload[key] = filter_dict[key]

\* Filter(must=[FieldCondition(key, MatchValue(value)), ...]) on a payload
PayloadMatches(payload, filter_dict) ==
    \A key \in DOMAIN filter_dict :
        key \in DOMAIN payload /\ payload[key] = filter_dict[key]

\* index orders that sort the scores descending (ties in any order)
DescendingOrders(scores) == {Reverse(p) : p \in AscendingOrders(scores)}

\* client.search on an existing collection: the scored points, best first
ScoredPoints(points, query_vector, limit, filter_dict) ==
    LET hits == SelectSeq(points, LAMBDA p : PayloadMatches(p.payload, filter_dict))
        scores == [i \in 1..Len(hits) |-> Cosine(query_vector.v, hits[i].vector.v)]
    IN  {[n \in 1..Min(limit, Len(hits)) |->
            [id |-> hits[order[n]].id, payload |-> hits[order[n]].payload,
             score |-> scores[order[n]]]] : order \in DescendingOrders(scores)}

(***************************************************************************)
(* VectorStoreManager.                                                     *)
(***************************************************************************)
\* variant of create_collection: the existence check is missing
create_collection_unchecked(colls, store_type) ==
    [colls |-> [colls EXCEPT ![CollectionName(store_type)] =
                    [exists |-> TRUE,
                     size |-> _get_embedding_dimension(DefaultModel),
                     points |-> <<>>]],
     requests |-> <<"get_collections", "create_collection">>]

\* create_collection on the state colls: [colls, requests]
create_collection(colls, store_type) ==
    LET name == CollectionName(store_type)
    IN  IF name \in get_collections(colls)
        THEN [colls |-> colls, requests |-> <<"get_collections">>]
        ELSE [colls |-> [colls EXCEPT ![name] =
                            [exists |-> TRUE,
                             size |-> _get_embedding_dimension(DefaultModel),
                             points |-> <<>>]],
              requests |-> <<"get_collections", "create_collection">>]

CreateCollection ==
    /\ Idle
    /\ \E store_type \in StoreTypes :
        LET created == create_collection(collections, store_type)
        IN  /\ collections' = created.colls
            /\ last' = [call |-> [op |-> "create_collection", store_type |-> store_type],
                        requests |-> created.requests, error |-> "none"]
    /\ UNCHANGED <<nextId, ingested, files, incidents_data, runbooks_data, export_run, wf, clients>>

\* variant of delete_collection: the request is not sent
delete_collection_skipped(colls, store_type) ==
    [colls |-> colls, result |-> colls[CollectionName(store_type)].exists]

\* delete_collection on the state colls: the service answers a delete of an
\* absent collection with result false, which the client does not raise on
delete_collection(colls, store_type) ==
    [colls |-> [colls EXCEPT ![CollectionName(store_type)] = NoCollection],
     result |-> colls[CollectionName(store_type)].exists]

DeleteCollection ==
    /\ Idle
    /\ \E store_type \in StoreTypes :
        LET deleted == delete_collection(collections, store_type)
        IN  /\ collections' = deleted.colls
            /\ last' = [call |-> [op |-> "delete_collection", store_type |-> store_type],
                        requests |-> <<"delete_collection">>, error |-> "none",
                        result |-> deleted.result]
    /\ UNCHANGED <<nextId, ingested, files, incidents_data, runbooks_data, export_run, wf, clients>>

AddCall(store_type, documents) ==
    [op |-> "add_documents", store_type |-> store_type, documents |-> documents]

\* variant of EmptyInput: the empty list is not rejected
EmptyInputIgnored(documents) == FALSE

\* `if not documents`
EmptyInput(documents) == documents = <<>>

\* variant of add_documents: the embeddings are computed before the
\* collection is created
add_documents_embedding_first(store_type, documents, embed_ok) ==
    LET name == CollectionName(store_type)
        created == create_collection(collections, store_type)
        texts == [i \in 1..Len(documents) |-> Get(documents[i], "content", "")]
        embeddings == embed_documents(DefaultModel, texts)
        points == BuildPoints(documents, embeddings, nextId + 1)
    IN  IF EmptyInput(documents)
        THEN /\ last' = [call |-> AddCall(store_type, documents),
                         requests |-> <<>>, error |-> "ValueError"]
             /\ UNCHANGED <<collections, nextId, ingested>>
        ELSE IF ~embed_ok
        THEN /\ last' = [call |-> AddCall(store_type, documents),
                         requests |-> <<"embed_documents">>,
                         error |-> "EmbeddingProviderError"]
             /\ UNCHANGED <<collections, nextId, ingested>>
        ELSE /\ collections' = [created.colls EXCEPT ![name].points =
                                    UpsertPoints(created.colls[name].points, points)]
             /\ nextId' = nextId + Len(documents)
             /\ ingested' = ingested \cup
                    {[id |-> points[i].id, content |-> documents[i].content,
                      metadata |-> documents[i].metadata] : i \in 1..Len(documents)}
             /\ last' = [call |-> AddCall(store_type, documents),
                         requests |-> <<"embed_documents">> \o created.requests
                                        \o <<"upsert">>,
                         error |-> "none"]

\* add_documents; embed_ok is whether the embedding provider answers
add_documents(store_type, documents, embed_ok) ==
    LET name == CollectionName(store_type)
        created == create_collection(collections, store_type)
        texts == [i \in 1..Len(documents) |-> Get(documents[i], "content", "")]
        embeddings == embed_documents(DefaultModel, texts)
        points == BuildPoints(documents, embeddings, nextId + 1)
    IN  IF EmptyInput(documents)
        THEN /\ last' = [call |-> AddCall(store_type, documents),
                         requests |-> <<>>, error |-> "ValueError"]
             /\ UNCHANGED <<collections, nextId, ingested>>
        ELSE IF ~embed_ok
        THEN /\ collections' = created.colls
             /\ last' = [call |-> AddCall(store_type, documents),
                         requests |-> created.requests \o <<"embed_documents">>,
                         error |-> "EmbeddingProviderError"]
             /\ UNCHANGED <<nextId, ingested>>
        ELSE /\ collections' = [created.colls EXCEPT ![name].points =
                                    UpsertPoints(created.colls[name].points, points)]
             /\ nextId' = nextId + Len(documents)
             /\ ingested' = ingested \cup
                    {[id |-> points[i].id, content |-> documents[i].content,
                      metadata |-> documents[i].metadata] : i \in 1..Len(documents)}
             /\ last' = [call |-> AddCall(store_type, documents),
                         requests |-> created.requests \o <<"embed_documents", "upsert">>,
                         error |-> "none"]

AddDocuments ==
    /\ Idle
    /\ \E store_type \in StoreTypes, documents \in SeqsOf(Docs, 0, MaxPoints),
          embed_ok \in BOOLEAN :
        /\ Len(collections[CollectionName(store_type)].points) + Len(documents) <= MaxPoints
        /\ nextId + Len(documents) <= MaxIds
        /\ add_documents(store_type, documents, embed_ok)
    /\ UNCHANGED <<files, incidents_data, runbooks_data, export_run, wf, clients>>

\* the formatting loop of similarity_search
FormatResult(scored) ==
    [content |-> Get(scored.payload, "content", ""),
     metadata |-> [k \in DOMAIN scored.payload \ {"content"} |-> scored.payload[k]],
     score |-> scored.score]

\* similarity_search: the possible outcomes [requests, error, result]
similarity_search(store_type, query, k, filter_dict) ==
    LET coll == collections[CollectionName(store_type)]
        query_vector == embed_text(DefaultModel, query)
    IN  IF ~coll.exists
        THEN {[requests |-> <<"embed_query", "search">>,
               error |-> "UnexpectedResponse", result |-> <<>>]}
        ELSE {[requests |-> <<"embed_query", "search">>, error |-> "none",
               result |-> [n \in 1..Len(results) |-> FormatResult(results[n])]] :
                results \in ScoredPoints(coll.points, query_vector, k, filter_dict)}

Ks == 1..MaxLimit

SimilaritySearch ==
    /\ Idle
    /\ \E store_type \in StoreTypes, query \in QueryTexts, k \in Ks, filter_dict \in Filters :
        \E outcome \in similarity_search(store_type, query, k, filter_dict) :
            last' = [call |-> [op |-> "similarity_search", store_type |-> store_type,
                               query |-> query, k |-> k, filter_dict |-> filter_dict],
                     requests |-> outcome.requests, error |-> outcome.error,
                     result |-> outcome.result]
    /\ UNCHANGED <<collections, nextId, ingested, files, incidents_data, runbooks_data, export_run, wf, clients>>

collection_exists(store_type) == CollectionName(store_type) \in get_collections(collections)

CollectionExists ==
    /\ Idle
    /\ \E store_type \in StoreTypes :
        last' = [call |-> [op |-> "collection_exists", store_type |-> store_type],
                 requests |-> <<"get_collections">>, error |-> "none",
                 result |-> collection_exists(store_type)]
    /\ UNCHANGED <<collections, nextId, ingested, files, incidents_data, runbooks_data, export_run, wf, clients>>

\* VectorStoreManager.get_collection_info: client.get_collection raises on an
\* absent collection; [error, result]
VectorStoreManager_get_collection_info(store_type) ==
    LET name == CollectionName(store_type)
        coll == collections[name]
    IN  IF ~coll.exists
        THEN [error |-> "UnexpectedResponse", result |-> EmptyMap]
        ELSE [error |-> "none",
              result |-> [name |-> name, vectors_count |-> Len(coll.points),
                          points_count |-> Len(coll.points), status |-> "green"]]

ManagerGetCollectionInfo ==
    /\ Idle
    /\ \E store_type \in StoreTypes :
        LET info == VectorStoreManager_get_collection_info(store_type)
        IN  last' = [call |-> [op |-> "manager_get_collection_info",
                               store_type |-> store_type],
                     requests |-> <<"get_collection">>, error |-> info.error,
                     result |-> info.result]
    /\ UNCHANGED <<collections, nextId, ingested, files, incidents_data, runbooks_data, export_run, wf, clients>>

(***************************************************************************)
(* The retrieval facade of the server-hosted variant                       *)
(* (src/rag/retriever.py).  An optional argument left out, None or "" is   *)
(* the empty string.                                                       *)
(***************************************************************************)
ServiceFilters == {"", "Database", "Network"}
SeverityFilters == {"", "low"}
CategoryFilters == {"", "database"}

\* the filter_dict both facade methods build from two optional arguments
BuildFilter(key1, value1, key2, value2) ==
    [key \in (IF value1 # "" THEN {key1} ELSE {}) \cup (IF value2 # "" THEN {key2} ELSE {}) |->
        IF key = key1 /\ value1 # "" THEN value1 ELSE value2]

\* variant of FacadeSearch: the existence check is missing
FacadeSearchUnchecked(store_type, query, k, filter_dict) ==
    {[requests |-> <<"get_collections">> \o outcome.requests,
      error |-> outcome.error, result |-> outcome.result] :
        outcome \in similarity_search(store_type, query, k, filter_dict)}

\* the body shared by search_incidents and search_runbooks: outcomes
FacadeSearch(store_type, query, k, filter_dict) ==
    IF ~collection_exists(store_type)
    THEN {[requests |-> <<"get_collections">>, error |-> "none", result |-> <<>>]}
    ELSE {[requests |-> <<"get_collections">> \o outcome.requests,
           error |-> outcome.error, result |-> outcome.result] :
            outcome \in similarity_search(store_type, query, k, filter_dict)}

search_incidents(query, k, service_filter, severity_filter) ==
    FacadeSearch("incidents", query, k,
                 BuildFilter("service", service_filter, "severity", severity_filter))

search_runbooks(query, k, service_filter, category_filter) ==
    FacadeSearch("runbooks", query, k,
                 BuildFilter("service", service_filter, "category", category_filter))

SearchIncidents ==
    /\ Idle
    /\ \E query \in QueryTexts, k \in Ks, service_filter \in ServiceFilters,
          severity_filter \in SeverityFilters :
        \E outcome \in search_incidents(query, k, service_filter, severity_filter) :
            last' = [call |-> [op |-> "search_incidents", store_type |-> "incidents",
                               query |-> query, k |-> k,
                               service_filter |-> service_filter,
                               severity_filter |-> severity_filter],
                     requests |-> outcome.requests, error |-> outcome.error,
                     result |-> outcome.result]
    /\ UNCHANGED <<collections, nextId, ingested, files, incidents_data, runbooks_data, export_run, wf, clients>>

SearchRunbooks ==
    /\ Idle
    /\ \E query \in QueryTexts, k \in Ks, service_filter \in ServiceFilters,
          category_filter \in CategoryFilters :
        \E outcome \in search_runbooks(query, k, service_filter, category_filter) :
            last' = [call |-> [op |-> "search_runbooks", store_type |-> "runbooks",
                               query |-> query, k |-> k,
                               service_filter |-> service_filter,
                               category_filter |-> category_filter],
                     requests |-> outcome.requests, error |-> outcome.error,
                     result |-> outcome.result]
    /\ UNCHANGED <<collections, nextId, ingested, files, incidents_data, runbooks_data, export_run, wf, clients>>

(***************************************************************************)
(* Export (data/export_to_files.py).  A scroll offset is the position of   *)
(* the first point of the page; 0 stands for None.                         *)
(***************************************************************************)
ScrollLimit == 100

\* client.scroll(limit, offset): [batch_points, next_offset]
scroll(points, limit, offset) ==
    LET first == IF offset = 0 THEN 1 ELSE offset
        stop == Min(first + limit - 1, Len(points))
    IN  [batch_points |-> SubSeq(points, first, stop),
         next_offset |-> IF stop < Len(points) THEN stop + 1 ELSE 0]

\* the while loop of export_collection
RECURSIVE ExportLoop(_, _, _)
ExportLoop(stored, offset, points) ==
    LET page == scroll(stored, ScrollLimit, offset)
        more == points \o ExportPoints(page.batch_points)
    IN  IF page.batch_points = <<>> THEN points
        ELSE IF page.next_offset = 0 THEN more
        ELSE ExportLoop(stored, page.next_offset, more)

\* export_collection: scrolling an absent collection raises; otherwise the
\* records are written to the output file (json.dump writes, and json.load
\* reads back, strings, numbers, lists and string-keyed maps unchanged)
export_collection(collection_name) ==
    IF ~collections[collection_name].exists
    THEN [error |-> "UnexpectedResponse", file |-> NoFile]
    ELSE [error |-> "none",
          file |-> [exists |-> TRUE,
                    data |-> ExportLoop(collections[collection_name].points, 0, <<>>)]]

\* main(): exports the incidents, then the runbooks; an exception ends it
ExportMain ==
    LET incidents == export_collection("devops_incidents")
        runbooks == export_collection("devops_runbooks")
    IN  /\ Idle
        /\ IF incidents.error # "none"
           THEN /\ UNCHANGED files
                /\ last' = [call |-> [op |-> "export_main"], error |-> incidents.error,
                            result |-> 1]
           ELSE IF runbooks.error # "none"
           THEN /\ files' = [files EXCEPT !["incidents.json"] = incidents.file]
                /\ last' = [call |-> [op |-> "export_main"], error |-> runbooks.error,
                            result |-> 1]
           ELSE /\ files' = [files EXCEPT !["incidents.json"] = incidents.file,
                                          !["runbooks.json"] = runbooks.file]
                /\ last' = [call |-> [op |-> "export_main"], error |-> "none",
                            result |-> 0]
        /\ UNCHANGED <<collections, nextId, ingested, incidents_data, runbooks_data, export_run, wf, clients>>

(***************************************************************************)
(* export_collection step by step: one action per request to the service.  *)
(* The service may serve fewer points than the limit asks for.             *)
(***************************************************************************)
\* the file main() passes for a collection
OutputFile(collection_name) ==
    IF collection_name = "devops_incidents" THEN "incidents.json" ELSE "runbooks.json"

\* `points = []`, `offset = None`
ExportStart ==
    /\ Idle
    /\ export_run.pc = "idle"
    /\ \E collection_name \in CollectionNames :
        export_run' = [pc |-> "scrolling", collection_name |-> collection_name,
                       offset |-> 0, points |-> <<>>, requests |-> 0]
    /\ UNCHANGED <<collections, nextId, ingested, files, incidents_data, runbooks_data, last, wf, clients>>

\* variant of ExportStep: `if next_offset is None: break` comes before the
\* points of the page are appended
ExportStepBreakFirst(run, page) ==
    IF page.batch_points = <<>> \/ page.next_offset = 0
    THEN [run EXCEPT !.pc = "writing"]
    ELSE [run EXCEPT !.points = @ \o ExportPoints(page.batch_points),
                     !.offset = page.next_offset]

\* one pass of the while loop on the page the service returned
ExportStep(run, page) ==
    IF page.batch_points = <<>>
    THEN [run EXCEPT !.pc = "writing"]
    ELSE IF page.next_offset = 0
    THEN [run EXCEPT !.points = @ \o ExportPoints(page.batch_points),
                     !.pc = "writing"]
    ELSE [run EXCEPT !.points = @ \o ExportPoints(page.batch_points),
                     !.offset = page.next_offset]

\* the page sizes the service may serve for a request of ScrollLimit points
ServedSizes == 1..Min(ScrollLimit, MaxScrollPoints)

\* client.scroll and the loop body; scrolling an absent collection raises;
\* requests counts the scroll requests made
ExportScroll ==
    /\ export_run.pc = "scrolling"
    /\ IF ~collections[export_run.collection_name].exists
       THEN /\ export_run' = NoExport
            /\ last' = [call |-> [op |-> "export_collection",
                                  collection_name |-> export_run.collection_name],
                        error |-> "UnexpectedResponse", result |-> 0,
                        requests |-> export_run.requests + 1]
       ELSE /\ \E served \in ServedSizes :
                export_run' = [ExportStep(export_run,
                                 scroll(collections[export_run.collection_name].points,
                                        served, export_run.offset))
                               EXCEPT !.requests = @ + 1]
            /\ UNCHANGED last
    /\ UNCHANGED <<collections, nextId, ingested, files, incidents_data, runbooks_data, wf, clients>>

\* json.dump(points, f) and `return len(points)`
ExportWrite ==
    /\ export_run.pc = "writing"
    /\ files' = [files EXCEPT ![OutputFile(export_run.collection_name)] =
                    [exists |-> TRUE, data |-> export_run.points]]
    /\ last' = [call |-> [op |-> "export_collection",
                          collection_name |-> export_run.collection_name],
                error |-> "none", result |-> Len(export_run.points),
                requests |-> export_run.requests]
    /\ export_run' = NoExport
    /\ UNCHANGED <<collections, nextId, ingested, incidents_data, runbooks_data, wf, clients>>

\* FileVectorStore.__init__: a new store loaded from the files
FileVectorStoreInit ==
    /\ Idle
    /\ incidents_data' = LoadFile(files["incidents.json"])
    /\ runbooks_data' = LoadFile(files["runbooks.json"])
    /\ last' = [call |-> [op |-> "FileVectorStore"], error |-> "none"]
    /\ UNCHANGED <<collections, nextId, ingested, files, export_run, wf, clients>>

(***************************************************************************)
(* Specifications.                                                         *)
(***************************************************************************)
\* the caller takes the outcome of the completed call
Return ==
    /\ ~Idle
    /\ last' = NoCall
    /\ UNCHANGED <<collections, nextId, ingested, files, incidents_data, runbooks_data, export_run, wf, clients>>

\* Spec: the server-hosted store and its facade, from an empty service.
Init ==
    /\ collections = [name \in CollectionNames |-> NoCollection]
    /\ nextId = 0
    /\ ingested = {}
    /\ files = [name \in FileNames |-> NoFile]
    /\ incidents_data = <<>>
    /\ runbooks_data = <<>>
    /\ last = NoCall
    /\ export_run = NoExport
    /\ wf = NoWorkflow
    /\ clients = NoClients

Next ==
    \/ CreateCollection
    \/ DeleteCollection
    \/ AddDocuments
    \/ SimilaritySearch
    \/ SearchIncidents
    \/ SearchRunbooks
    \/ CollectionExists
    \/ ManagerGetCollectionInfo
    \/ Return

Spec == Init /\ [][Next]_vars

\* SpecExport: ingestion into the service, export to the files, a flat-file
\* store constructed from them, and searches of both backends.
NextExport ==
    \/ AddDocuments
    \/ ExportMain
    \/ FileVectorStoreInit
    \/ Search
    \/ SimilaritySearch
    \/ Return

SpecExport == Init /\ [][NextExport]_vars

\* SpecScroll: exports, one request at a time, of collections that hold up
\* to MaxScrollPoints points (or are absent).  The export script is a
\* sequential program: a request that can be made is made, and the file is
\* written once the loop has ended.
ScrollDocs == {d \in Docs : d.metadata.service = "Database"}

StoredCollections(firstId) ==
    {NoCollection} \cup
    {[exists |-> TRUE, size |-> _get_embedding_dimension(DefaultModel),
      points |-> BuildPoints(documents,
                    embed_documents(DefaultModel,
                        [i \in 1..Len(documents) |-> documents[i].content]),
                    firstId)] : documents \in SeqsOf(ScrollDocs, 0, MaxScrollPoints)}

InitScroll ==
    /\ collections \in [CollectionNames ->
                            StoredCollections(1) \cup StoredCollections(11)]
    /\ collections["devops_incidents"] \in StoredCollections(1)
    /\ collections["devops_runbooks"] \in StoredCollections(11)
    /\ nextId = 0
    /\ ingested = {}
    /\ files = [name \in FileNames |-> NoFile]
    /\ incidents_data = <<>>
    /\ runbooks_data = <<>>
    /\ last = NoCall
    /\ export_run = NoExport
    /\ wf = NoWorkflow
    /\ clients = NoClients

NextScroll ==
    \/ ExportStart
    \/ ExportScroll
    \/ ExportWrite
    \/ Return

SpecScroll ==
    InitScroll /\ [][NextScroll]_vars /\ WF_vars(ExportScroll) /\ WF_vars(ExportWrite)

(***************************************************************************)
(* The incident response workflow (src/agents/supervisor.py).  The graph   *)
(* state is a map from the keys of IncidentState that have been set to     *)
(* their values; the answers of the language model are abstract values.    *)
(* wf.executed lists the nodes that ran and wf.raised the exceptions their *)
(* steps raised, as [node, message] with message = str(e); wf.responses    *)
(* lists what the language model answered to each node that called it.     *)
(***************************************************************************)
Nodes == <<"log_analyzer", "retrieve_context", "diagnostic", "action">>

\* variant of NextNode: the edge out of retrieve_context leads to action
NextNodeSkippingDiagnostic(node) ==
    IF node = "log_analyzer" THEN "retrieve_context"
    ELSE IF node = "retrieve_context" THEN "action"
    ELSE IF node = "diagnostic" THEN "action"
    ELSE "END"

\* the edges added in _build_graph
NextNode(node) ==
    IF node = "log_analyzer" THEN "retrieve_context"
    ELSE IF node = "retrieve_context" THEN "diagnostic"
    ELSE IF node = "diagnostic" THEN "action"
    ELSE "END"

\* the graph writes the keys of a node's update over the state
Merge(state, update) ==
    [key \in DOMAIN state \cup DOMAIN update |->
        IF key \in DOMAIN update THEN update[key] ELSE state[key]]

\* variant of AppendError: the list is replaced by the new message
AppendErrorOverwriting(state, message) == <<message>>

\* state.get("errors", []) + [str(e)]
AppendError(state, message) == Get(state, "errors", <<>>) \o <<message>>

\* a node function returned `update`; error is the exception its step
\* raised and response what the language model answered ("" if not called)
NodeReturns(node, update, error, response) ==
    wf' = [pc |-> NextNode(node),
           state |-> Merge(wf.state, update),
           executed |-> Append(wf.executed, node),
           raised |-> IF error = "none" THEN wf.raised
                      ELSE Append(wf.raised, [node |-> node, message |-> error]),
           responses |-> IF response = "" THEN wf.responses
                         ELSE Append(wf.responses,
                                     [node |-> node, response |-> response])]

\* input_data of invoke: severity is optional
InputData ==
    {[input_log |-> "database connections exhausted", service_name |-> service_name] :
        service_name \in {"Database", ""}}
    \cup {[input_log |-> "database connections exhausted", service_name |-> "Database",
           severity |-> "low"]}

\* invoke up to graph.invoke: the initial state, entry point log_analyzer
Invoke ==
    /\ Idle
    /\ wf.pc = "idle"
    /\ \E input_data \in InputData :
        wf' = [pc |-> "log_analyzer",
               state |-> [input_log |-> input_data.input_log,
                          service_name |-> input_data.service_name,
                          severity |-> Get(input_data, "severity", "Medium"),
                          current_step |-> "started",
                          errors |-> <<>>],
               executed |-> <<>>,
               raised |-> <<>>,
               responses |-> <<>>]
    /\ UNCHANGED <<collections, nextId, ingested, files, incidents_data, runbooks_data, last, export_run, clients>>

\* llm.invoke: it raises, or response.content is the JSON document the
\* prompt asks for ("json"), or text that holds no parseable JSON ("text")
LLMResponses == {"APIConnectionError", "json", "text"}

\* LogAnalyzerAgent._parse_response: [error, result].  The fallback of the
\* JSONDecodeError handler reads service_name, severity and input_log,
\* which are not names of this method: building it raises NameError
LogAnalyzer_parse_response(response_content, search_query) ==
    IF response_content = "json"
    THEN [error |-> "none",
          result |-> [summary |-> "connection pool exhausted",
                      symptoms |-> <<"connection timeouts">>,
                      error_patterns |-> <<"pool exhausted">>,
                      search_query |-> search_query]]
    ELSE [error |-> "name 'service_name' is not defined", result |-> EmptyMap]

\* LogAnalyzerAgent.__call__ and analyze: [error, update]
LogAnalyzerAgent(state, response, search_query) ==
    LET parsed == LogAnalyzer_parse_response(response, search_query)
        result == parsed.result
    IN  IF response \notin {"json", "text"}
        THEN [error |-> response, update |-> EmptyMap]
        ELSE IF parsed.error # "none"
        THEN [error |-> parsed.error, update |-> EmptyMap]
        ELSE [error |-> "none",
              update |-> [log_analysis |-> result,
                          extracted_symptoms |-> Get(result, "symptoms", <<>>),
                          error_patterns |-> Get(result, "error_patterns", <<>>),
                          search_query |-> Get(result, "search_query", "")]]

_log_analyzer_node ==
    /\ wf.pc = "log_analyzer"
    /\ \E response \in LLMResponses, search_query \in QueryTexts :
        LET result == LogAnalyzerAgent(wf.state, response, search_query)
        IN  IF result.error = "none"
            THEN NodeReturns("log_analyzer",
                     Merge(result.update, [current_step |-> "log_analysis_complete"]),
                     "none", response)
            ELSE NodeReturns("log_analyzer",
                     [current_step |-> "log_analysis_failed",
                      errors |-> AppendError(wf.state, result.error)],
                     result.error, response)
    /\ UNCHANGED <<collections, nextId, ingested, files, incidents_data, runbooks_data, last, export_run, clients>>

RetrievalK == 3

\* the try block of _retrieval_node when every request is answered: the
\* outcomes [error, incidents, runbooks].  The texts of the model are
\* shorter than 500 characters, so [:500] keeps them whole; a missing
\* filter argument is "".
Retrieve(state) ==
    LET search_query == Get(state, "search_query", Get(state, "input_log", ""))
        service_filter == Get(state, "service_name", "")
        severity_filter == Get(state, "severity", "")
    IN  {[error |-> IF incidents.error # "none" THEN incidents.error ELSE runbooks.error,
          incidents |-> incidents.result, runbooks |-> runbooks.result] :
            incidents \in search_incidents(search_query, RetrievalK,
                                           service_filter, severity_filter),
            runbooks \in search_runbooks(search_query, RetrievalK, service_filter, "")}

\* a search of an existing collection sends an embedding request, which
\* the provider may fail
EmbeddingRequested == \E store_type \in StoreTypes : collection_exists(store_type)

\* the except block of _retrieval_node
RetrievalFailed(error) ==
    NodeReturns("retrieve_context",
        [similar_incidents |-> <<>>,
         relevant_runbooks |-> <<>>,
         current_step |-> "retrieval_failed",
         errors |-> AppendError(wf.state, error)],
        error, "")

_retrieval_node ==
    /\ wf.pc = "retrieve_context"
    /\ \/ EmbeddingRequested /\ RetrievalFailed("EmbeddingProviderError")
       \/ \E outcome \in Retrieve(wf.state) :
            IF outcome.error = "none"
            THEN NodeReturns("retrieve_context",
                     [similar_incidents |-> outcome.incidents,
                      relevant_runbooks |-> outcome.runbooks,
                      current_step |-> "retrieval_complete"],
                     "none", "")
            ELSE RetrievalFailed(outcome.error)
    /\ UNCHANGED <<collections, nextId, ingested, files, incidents_data, runbooks_data, last, export_run, clients>>

\* DiagnosticAgent._parse_response: the result dict
Diagnostic_parse_response(response_content) ==
    IF response_content = "json"
    THEN [root_cause |-> "connection pool exhausted",
          confidence |-> "float:0.8",
          reasoning |-> "matches a past incident"]
    ELSE [root_cause |-> "Unable to determine root cause due to parsing error",
          confidence |-> "float:0.0",
          reasoning |-> response_content,
          supporting_evidence |-> <<>>,
          similar_incident_matches |-> <<>>,
          alternative_causes |-> <<>>,
          next_diagnostic_steps |-> <<>>,
          parse_error |-> "JSONDecodeError"]

\* variant of DiagnosticAgent: a missing log_analysis is read as {}
DiagnosticAgentTolerant(state, response) ==
    LET result == Diagnostic_parse_response(response)
    IN  IF response \notin {"json", "text"}
        THEN [error |-> response, update |-> EmptyMap]
        ELSE [error |-> "none",
              update |-> [root_cause |-> Get(result, "root_cause", ""),
                          confidence |-> Get(result, "confidence", "float:0.0"),
                          diagnostic_reasoning |-> Get(result, "reasoning", ""),
                          diagnostic_results |-> result]]

\* DiagnosticAgent.__call__ and diagnose: state["log_analysis"] raises
\* KeyError when the key was never set; [error, update]
DiagnosticAgent(state, response) ==
    LET result == Diagnostic_parse_response(response)
    IN  IF "log_analysis" \notin DOMAIN state
        THEN [error |-> "'log_analysis'", update |-> EmptyMap]
        ELSE IF response \notin {"json", "text"}
        THEN [error |-> response, update |-> EmptyMap]
        ELSE [error |-> "none",
              update |-> [root_cause |-> Get(result, "root_cause", ""),
                          confidence |-> Get(result, "confidence", "float:0.0"),
                          diagnostic_reasoning |-> Get(result, "reasoning", ""),
                          diagnostic_results |-> result]]

\* variant of DiagnosticFailed: the fallback holds no diagnosis
DiagnosticFailedErrorsOnly(error, response) ==
    NodeReturns("diagnostic",
        [current_step |-> "diagnostic_failed",
         errors |-> AppendError(wf.state, error)],
        error, response)

\* the except block of _diagnostic_node
DiagnosticFailed(error, response) ==
    NodeReturns("diagnostic",
        [root_cause |-> "Unable to determine",
         confidence |-> "float:0.0",
         current_step |-> "diagnostic_failed",
         errors |-> AppendError(wf.state, error)],
        error, response)

\* the model is called only after state["log_analysis"] was read
_diagnostic_node ==
    /\ wf.pc = "diagnostic"
    /\ \E response \in LLMResponses :
        LET result == DiagnosticAgent(wf.state, response)
            answered == IF "log_analysis" \in DOMAIN wf.state THEN response ELSE ""
        IN  IF result.error = "none"
            THEN NodeReturns("diagnostic",
                     Merge(result.update, [current_step |-> "diagnostic_complete"]),
                     "none", answered)
            ELSE DiagnosticFailed(result.error, answered)
    /\ UNCHANGED <<collections, nextId, ingested, files, incidents_data, runbooks_data, last, export_run, clients>>

\* ActionAgent._parse_response: the result dict
Action_parse_response(response_content) ==
    IF response_content = "json"
    THEN [resolution_summary |-> "restart the pool and raise the limit",
          immediate_actions |-> <<[action |-> "restart the pool",
                                   commands |-> <<"systemctl restart pgbouncer">>]>>,
          root_cause_resolution |-> <<[action |-> "raise max_connections",
                                       commands |-> <<>>]>>,
          estimated_time |-> "30 minutes"]
    ELSE [resolution_summary |->
              "Unable to create structured action plan due to parsing error",
          estimated_time |-> "Unknown",
          priority |-> "High",
          immediate_actions |-> <<>>,
          root_cause_resolution |-> <<>>,
          validation_steps |-> <<>>,
          rollback_procedure |-> <<>>,
          prevention_recommendations |-> <<>>,
          runbooks_used |-> <<>>,
          raw_response |-> response_content,
          parse_error |-> "JSONDecodeError"]

\* commands.extend(action.get("commands", [])) over a list of actions
RECURSIVE ExtendCommands(_)
ExtendCommands(actions) ==
    IF actions = <<>> THEN <<>>
    ELSE Get(Head(actions), "commands", <<>>) \o ExtendCommands(Tail(actions))

\* ActionAgent._extract_commands
_extract_commands(action_plan) ==
    ExtendCommands(Get(action_plan, "immediate_actions", <<>>))
        \o ExtendCommands(Get(action_plan, "root_cause_resolution", <<>>))

\* ActionAgent.__call__ and create_action_plan: [error, update]
ActionAgent(state, response) ==
    LET result == Action_parse_response(response)
    IN  IF response \notin {"json", "text"}
        THEN [error |-> response, update |-> EmptyMap]
        ELSE [error |-> "none",
              update |-> [resolution_steps |->
                              Get(result, "immediate_actions", <<>>)
                                  \o Get(result, "root_cause_resolution", <<>>),
                          commands |-> _extract_commands(result),
                          estimated_time |-> Get(result, "estimated_time", "Unknown"),
                          action_plan |-> result]]

_action_node ==
    /\ wf.pc = "action"
    /\ \E response \in LLMResponses :
        LET result == ActionAgent(wf.state, response)
        IN  IF result.error = "none"
            THEN NodeReturns("action",
                     Merge(result.update, [current_step |-> "action_complete"]),
                     "none", response)
            ELSE NodeReturns("action",
                     [resolution_steps |-> <<>>,
                      commands |-> <<>>,
                      estimated_time |-> "Unknown",
                      current_step |-> "action_failed",
                      errors |-> AppendError(wf.state, result.error)],
                     result.error, response)
    /\ UNCHANGED <<collections, nextId, ingested, files, incidents_data, runbooks_data, last, export_run, clients>>

\* graph.invoke reached END: invoke returns final_state
InvokeReturn ==
    /\ wf.pc = "END"
    /\ last' = [call |-> [op |-> "invoke"], error |-> "none", result |-> wf.state,
                executed |-> wf.executed, raised |-> wf.raised,
                responses |-> wf.responses]
    /\ wf' = NoWorkflow
    /\ UNCHANGED <<collections, nextId, ingested, files, incidents_data, runbooks_data, export_run, clients>>

\* SpecWorkflow: workflow runs against a service whose collections hold up
\* to MaxPoints points (or are absent).  The graph executor runs the
\* node its edge leads to, and invoke returns once END is reached.
NextWorkflow ==
    \/ Invoke
    \/ _log_analyzer_node
    \/ _retrieval_node
    \/ _diagnostic_node
    \/ _action_node
    \/ InvokeReturn
    \/ Return

\* a step of a run in progress: at most one of these is enabled
WorkflowStep ==
    \/ _log_analyzer_node
    \/ _retrieval_node
    \/ _diagnostic_node
    \/ _action_node
    \/ InvokeReturn

\* the service of a workflow run: no collection holds more than MaxPoints
InitWorkflow ==
    /\ InitScroll
    /\ \A name \in CollectionNames : Len(collections[name].points) <= MaxPoints

SpecWorkflow == InitWorkflow /\ [][NextWorkflow]_vars /\ WF_vars(WorkflowStep)

(***************************************************************************)
(* The retrieval facade of the flat-file variant (src/file_rag/             *)
(* retriever.py).  An optional argument left out, None or "" is the empty  *)
(* string.                                                                 *)
(***************************************************************************)
FileEmbeddingModel == "text-embedding-3-large"

\* the filters dict search_incidents builds
FileIncidentFilters(service_filter, severity_filter) ==
    [key \in (IF service_filter # "" THEN {"service"} ELSE {})
              \cup (IF severity_filter # "" THEN {"severity"} ELSE {}) |->
        IF key = "service" THEN service_filter ELSE severity_filter]

\* the filters dict search_runbooks builds: service_filter is its only
\* filter parameter
FileRunbookFilters(service_filter) ==
    [key \in (IF service_filter # "" THEN {"service"} ELSE {}) |-> service_filter]

FileSearchIncidents ==
    /\ Idle
    /\ \E query \in QueryTexts, k \in Ks, service_filter \in ServiceFilters,
          severity_filter \in SeverityFilters :
        \E outcome \in SearchOutcomes("devops_incidents",
                                      embed_text(FileEmbeddingModel, query), k,
                                      FileIncidentFilters(service_filter, severity_filter)) :
            last' = [outcome EXCEPT !.call =
                        [op |-> "file_search_incidents", store_type |-> "incidents",
                         query |-> query, k |-> k,
                         service_filter |-> service_filter,
                         severity_filter |-> severity_filter,
                         filters |-> outcome.call.filters]]
    /\ UNCHANGED <<collections, nextId, ingested, files, incidents_data, runbooks_data, export_run, wf, clients>>

\* search_runbooks called with a category_filter argument has no parameter
\* to bind it to: the call raises TypeError before the body runs
FileSearchRunbooks ==
    /\ Idle
    /\ \E query \in QueryTexts, k \in Ks, service_filter \in ServiceFilters,
          category_filter \in CategoryFilters :
        LET call == [op |-> "file_search_runbooks", store_type |-> "runbooks",
                     query |-> query, k |-> k,
                     service_filter |-> service_filter,
                     category_filter |-> category_filter]
        IN  IF category_filter # ""
            THEN last' = [call |-> call, error |-> "TypeError", log |-> "",
                          similarities |-> <<>>, result |-> <<>>]
            ELSE \E outcome \in SearchOutcomes("devops_runbooks",
                                      embed_text(FileEmbeddingModel, query), k,
                                      FileRunbookFilters(service_filter)) :
                    last' = [outcome EXCEPT !.call =
                                [call EXCEPT !.category_filter = ""] @@
                                [filters |-> outcome.call.filters]]
    /\ UNCHANGED <<collections, nextId, ingested, files, incidents_data, runbooks_data, export_run, wf, clients>>

\* SpecFacade: both facades over one deployment: a service whose
\* collections hold up to MaxPoints points (or are absent), and a flat-file
\* store loaded from the export of these collections.
InitFacade ==
    /\ collections \in [CollectionNames ->
                            StoredCollections(1) \cup StoredCollections(11)]
    /\ collections["devops_incidents"] \in StoredCollections(1)
    /\ collections["devops_runbooks"] \in StoredCollections(11)
    /\ \A name \in CollectionNames : Len(collections[name].points) <= MaxPoints
    /\ nextId = 0
    /\ ingested = {}
    /\ files = [name \in FileNames |->
                    export_collection(IF name = "incidents.json" THEN "devops_incidents"
                                      ELSE "devops_runbooks").file]
    /\ incidents_data = LoadFile(files["incidents.json"])
    /\ runbooks_data = LoadFile(files["runbooks.json"])
    /\ last = NoCall
    /\ export_run = NoExport
    /\ wf = NoWorkflow
    /\ clients = NoClients

NextFacade ==
    \/ SearchIncidents
    \/ SearchRunbooks
    \/ FileSearchIncidents
    \/ FileSearchRunbooks
    \/ Return

SpecFacade == InitFacade /\ [][NextFacade]_vars

\* SpecFilter: _apply_filters on loaded records whose metadata holds values
\* of several Python types under the key priority: the numbers 1, 1.0 and
\* 0, the boolean True and the string "1".
TypedValues == {"int:1", "float:1.0", "bool:True", "int:0", "1"}

TypedMetadata ==
    {EmptyMap, [service |-> "Database"]}
    \cup {[priority |-> value] : value \in TypedValues}
    \cup {[service |-> "Database", priority |-> value] : value \in TypedValues}

TypedFilters == TypedMetadata \cup {[service |-> "Network"]}

InitFilter ==
    /\ collections = [name \in CollectionNames |-> NoCollection]
    /\ nextId = 0
    /\ ingested = {}
    /\ files = [name \in FileNames |-> NoFile]
    /\ \E metadatas \in SeqsOf(TypedMetadata, 0, MaxRecords) :
        incidents_data = [i \in 1..Len(metadatas) |->
                            [id |-> i, text |-> "", metadata |-> metadatas[i],
                             embedding |-> embed_text(DefaultModel, "")]]
    /\ runbooks_data = <<>>
    /\ last = NoCall
    /\ export_run = NoExport
    /\ wf = NoWorkflow
    /\ clients = NoClients

\* a call of _apply_filters on the loaded incidents
ApplyFilters ==
    /\ Idle
    /\ \E filters \in TypedFilters :
        last' = [call |-> [op |-> "_apply_filters", data |-> incidents_data,
                           filters |-> filters],
                 error |-> "none",
                 result |-> _apply_filters(incidents_data, filters)]
    /\ UNCHANGED <<collections, nextId, ingested, files, incidents_data, runbooks_data, export_run, wf, clients>>

NextFilter ==
    \/ ApplyFilters
    \/ Return

SpecFilter == InitFilter /\ [][NextFilter]_vars

\* SpecFile: a flat-file store constructed over files that an export of up
\* to MaxRecords ingested documents per collection has written (or that
\* are missing).
ExportedFiles(firstId) ==
    {NoFile} \cup
    {[exists |-> TRUE,
      data |-> ExportPoints(BuildPoints(documents,
                    embed_documents(DefaultModel,
                        [i \in 1..Len(documents) |-> documents[i].content]),
                    firstId))] : documents \in SeqsOf(Docs, 0, MaxRecords)}

InitFile ==
    /\ collections = [name \in CollectionNames |-> NoCollection]
    /\ nextId = 0
    /\ ingested = {}
    /\ files \in [FileNames -> ExportedFiles(1) \cup ExportedFiles(11)]
    /\ files["incidents.json"] \in ExportedFiles(1)
    /\ files["runbooks.json"] \in ExportedFiles(11)
    /\ incidents_data = LoadFile(files["incidents.json"])
    /\ runbooks_data = LoadFile(files["runbooks.json"])
    /\ last = NoCall
    /\ export_run = NoExport
    /\ wf = NoWorkflow
    /\ clients = NoClients

NextFile ==
    \/ FileVectorStoreInit
    \/ Search
    \/ GetCollectionInfo
    \/ Return

SpecFile == InitFile /\ [][NextFile]_vars

\* SpecConcurrent: several callers use one constructed FileVectorStore at
\* the same time.  A call is split where another thread can run in between:
\* after the call is entered, after it has read the list attribute of the
\* store, and after it has computed its return value from that list.
ConcurrentCalls ==
    {FileSearchCall(collection_name,
                    embed_text(DefaultModel, "database connections exhausted"),
                    1, filters) :
        collection_name \in {"devops_incidents", "devops_runbooks"},
        filters \in {EmptyMap, [service |-> "Database", severity |-> "low"]}}
    \cup {[op |-> "get_collection_info", collection_name |-> collection_name] :
            collection_name \in {"devops_incidents", "devops_runbooks"}}

ClientCall(client) ==
    /\ clients[client].pc = "idle"
    /\ \E call \in ConcurrentCalls :
            clients' = [clients EXCEPT ![client] = [pc |-> "called", call |-> call]]
    /\ UNCHANGED <<collections, nextId, ingested, files, incidents_data, runbooks_data,
                   last, export_run, wf>>

\* the call reads self.incidents_data or self.runbooks_data
ClientLoad(client) ==
    /\ clients[client].pc = "called"
    /\ clients' = [clients EXCEPT ![client] =
            [pc |-> "loaded", call |-> clients[client].call,
             data |-> SourceData(SelectSource(clients[client].call.collection_name))]]
    /\ UNCHANGED <<collections, nextId, ingested, files, incidents_data, runbooks_data,
                   last, export_run, wf>>

\* what the call returns from the list it read
ClientOutcomes(call, data) ==
    IF call.op = "search"
    THEN SearchOutcomesOn(data, call.collection_name, call.query_vector,
                          call.limit, call.filters)
    ELSE {[call |-> call, error |-> "none", result |-> FileCollectionInfo(Len(data))]}

\* variant of ClientCompute: search stores the filtered list back in the
\* attribute it read
ClientComputeInPlace(client) ==
    LET call == clients[client].call
        data == clients[client].data
        kept == IF call.op = "search" THEN _apply_filters(data, call.filters) ELSE data
    IN  /\ clients[client].pc = "loaded"
        /\ \E outcome \in ClientOutcomes(call, data) :
                clients' = [clients EXCEPT ![client] =
                                [pc |-> "done", call |-> call, outcome |-> outcome]]
        /\ incidents_data' = IF SelectSource(call.collection_name) = "incidents"
                             THEN kept ELSE incidents_data
        /\ runbooks_data' = IF SelectSource(call.collection_name) = "runbooks"
                            THEN kept ELSE runbooks_data
        /\ UNCHANGED <<collections, nextId, ingested, files, last, export_run, wf>>

\* the rest of the call works on locals only and assigns no attribute
ClientCompute(client) ==
    /\ clients[client].pc = "loaded"
    /\ \E outcome \in ClientOutcomes(clients[client].call, clients[client].data) :
            clients' = [clients EXCEPT ![client] =
                            [pc |-> "done", call |-> clients[client].call,
                             outcome |-> outcome]]
    /\ UNCHANGED <<collections, nextId, ingested, files, incidents_data, runbooks_data,
                   last, export_run, wf>>

ClientReturn(client) ==
    /\ clients[client].pc = "done"
    /\ clients' = [clients EXCEPT ![client] = NoClient]
    /\ UNCHANGED <<collections, nextId, ingested, files, incidents_data, runbooks_data,
                   last, export_run, wf>>

NextConcurrent ==
    \E client \in Clients :
        \/ ClientCall(client)
        \/ ClientLoad(client)
        \/ ClientCompute(client)
        \/ ClientReturn(client)

SpecConcurrent == InitFile /\ [][NextConcurrent]_vars

\* SpecCallers: one client at a time runs a caller of get_collection_info
\* against the index service: the constructor of the server-hosted
\* DocumentRetriever (_check_collections), its get_status, or push_data.
\* Each request to the service is one step.  `observed` is what the caller
\* has learnt about the existence of the collection it is working on.
Programs == {"_check_collections", "get_status", "push_data"}

\* the documents push_data loads from a sample file
PushDocuments == SeqsOf(ScrollDocs, 0, 1)

InitCallers ==
    /\ collections \in [CollectionNames ->
                            StoredCollections(21) \cup StoredCollections(31)]
    /\ collections["devops_incidents"] \in StoredCollections(21)
    /\ collections["devops_runbooks"] \in StoredCollections(31)
    /\ \A name \in CollectionNames : Len(collections[name].points) <= MaxPoints
    /\ nextId = 0
    /\ ingested = {}
    /\ files = [name \in FileNames |-> NoFile]
    /\ incidents_data = <<>>
    /\ runbooks_data = <<>>
    /\ last = NoCall
    /\ export_run = NoExport
    /\ wf = NoWorkflow
    /\ clients = NoClients

\* the caller turns to its first collection
CallerStart(client) ==
    /\ \A other \in Clients : clients[other].pc = "idle"
    /\ \E program \in Programs :
            clients' = [clients EXCEPT ![client] =
                [pc |-> "collection_exists", program |-> program,
                 store_type |-> "incidents", observed |-> FALSE,
                 status |-> EmptyMap, error |-> "none"]]
    /\ UNCHANGED <<collections, nextId, ingested, files, incidents_data, runbooks_data,
                   last, export_run, wf>>

\* the caller is through with one collection: the runbooks follow the
\* incidents, and after the runbooks the caller returns
NextCollection(caller) ==
    IF caller.store_type = "incidents"
    THEN [caller EXCEPT !.pc = "collection_exists", !.store_type = "runbooks",
                        !.observed = FALSE]
    ELSE [caller EXCEPT !.pc = "done"]

\* variant of AfterCollectionExists: the answer is not looked at
AfterCollectionExistsUnchecked(caller, exists) ==
    [caller EXCEPT !.pc = "get_collection_info", !.observed = exists]

\* the branch a caller takes on the answer of collection_exists()
AfterCollectionExists(caller, exists) ==
    IF caller.program = "push_data"
    THEN [caller EXCEPT !.pc = IF exists THEN "input" ELSE "add_documents",
                        !.observed = exists]
    ELSE [caller EXCEPT !.pc = IF exists THEN "get_collection_info" ELSE "not_created",
                        !.observed = exists]

CallerCollectionExists(client) ==
    /\ clients[client].pc = "collection_exists"
    /\ clients' = [clients EXCEPT ![client] =
            AfterCollectionExists(clients[client],
                                  collection_exists(clients[client].store_type))]
    /\ UNCHANGED <<collections, nextId, ingested, files, incidents_data, runbooks_data,
                   last, export_run, wf>>

\* the else branch: get_status reports {"status": "not_created"}, the
\* constructor only logs
CallerNotCreated(client) ==
    LET caller == clients[client]
    IN  /\ caller.pc = "not_created"
        /\ clients' = [clients EXCEPT ![client] =
                NextCollection(
                    IF caller.program = "get_status"
                    THEN [caller EXCEPT !.status =
                            Merge(caller.status,
                                  [key \in {caller.store_type} |->
                                        [status |-> "not_created"]])]
                    ELSE caller)]
        /\ UNCHANGED <<collections, nextId, ingested, files, incidents_data,
                       runbooks_data, last, export_run, wf>>

\* an exception of get_collection_info is caught by none of the callers
CallerGetCollectionInfo(client) ==
    LET caller == clients[client]
        info == VectorStoreManager_get_collection_info(caller.store_type)
    IN  /\ caller.pc = "get_collection_info"
        /\ clients' = [clients EXCEPT ![client] =
                IF info.error # "none"
                THEN [caller EXCEPT !.pc = "done", !.error = info.error]
                ELSE NextCollection(
                        [caller EXCEPT !.status =
                            Merge(caller.status,
                                  [key \in {caller.store_type} |-> info.result])])]
        /\ UNCHANGED <<collections, nextId, ingested, files, incidents_data,
                       runbooks_data, last, export_run, wf>>

\* push_data: input("Delete and recreate? (y/n): ")
CallerInput(client) ==
    /\ clients[client].pc = "input"
    /\ \E response \in {"y", "n"} :
            clients' = [clients EXCEPT ![client].pc =
                            IF response = "y" THEN "delete_collection"
                            ELSE "add_documents"]
    /\ UNCHANGED <<collections, nextId, ingested, files, incidents_data, runbooks_data,
                   last, export_run, wf>>

CallerDeleteCollection(client) ==
    /\ clients[client].pc = "delete_collection"
    /\ collections' = delete_collection(collections, clients[client].store_type).colls
    /\ clients' = [clients EXCEPT ![client].pc = "add_documents",
                                  ![client].observed = FALSE]
    /\ UNCHANGED <<nextId, ingested, files, incidents_data, runbooks_data, last,
                   export_run, wf>>

\* push_data: add_documents, whose exception ends the script
CallerAddDocuments(client) ==
    /\ clients[client].pc = "add_documents"
    /\ \E documents \in PushDocuments, embed_ok \in BOOLEAN :
        /\ nextId + Len(documents) <= MaxIds
        /\ add_documents(clients[client].store_type, documents, embed_ok)
    /\ clients' = [clients EXCEPT ![client] =
            IF last'.error = "none"
            THEN [@ EXCEPT !.pc = "get_collection_info", !.observed = TRUE]
            ELSE [@ EXCEPT !.pc = "done", !.error = last'.error]]
    /\ UNCHANGED <<files, incidents_data, runbooks_data, export_run, wf>>

CallerReturn(client) ==
    /\ clients[client].pc = "done"
    /\ clients' = [clients EXCEPT ![client] = NoClient]
    /\ last' = NoCall
    /\ UNCHANGED <<collections, nextId, ingested, files, incidents_data, runbooks_data,
                   export_run, wf>>

NextCallers ==
    \E client \in Clients :
        \/ CallerStart(client)
        \/ CallerCollectionExists(client)
        \/ CallerNotCreated(client)
        \/ CallerGetCollectionInfo(client)
        \/ CallerInput(client)
        \/ CallerDeleteCollection(client)
        \/ CallerAddDocuments(client)
        \/ CallerReturn(client)

SpecCallers == InitCallers /\ [][NextCallers]_vars

\* SpecRace: two clients call add_documents on the incident collection of
\* an empty service at the same time.  Every request a call sends to the
\* service (get_collections, create_collection, upsert) and its embedding
\* request is one step, and the steps of the two calls interleave freely.
\* The service answers create_collection for a name it already holds with a
\* conflict, which the client raises as UnexpectedResponse.
RaceBatches == SeqsOf(Docs, 1, 1)

AddStart(client) ==
    /\ clients[client].pc = "idle"
    /\ \E documents \in RaceBatches :
            clients' = [clients EXCEPT ![client] =
                [pc |-> "get_collections", store_type |-> "incidents",
                 documents |-> documents,
                 existed |-> collection_exists("incidents"),
                 collection_names |-> {}, created |-> FALSE, points |-> <<>>,
                 error |-> "none"]]
    /\ UNCHANGED <<collections, nextId, ingested, files, incidents_data, runbooks_data,
                   last, export_run, wf>>

\* create_collection: collections = self.client.get_collections().collections
AddGetCollections(client) ==
    LET call == clients[client]
        names == get_collections(collections)
    IN  /\ call.pc = "get_collections"
        /\ clients' = [clients EXCEPT ![client] =
                [call EXCEPT !.collection_names = names,
                             !.pc = IF CollectionName(call.store_type) \in names
                                    THEN "embed_documents" ELSE "create_collection"]]
        /\ UNCHANGED <<collections, nextId, ingested, files, incidents_data,
                       runbooks_data, last, export_run, wf>>

\* create_collection: self.client.create_collection(...)
AddCreateCollection(client) ==
    LET call == clients[client]
        name == CollectionName(call.store_type)
    IN  /\ call.pc = "create_collection"
        /\ IF collections[name].exists
           THEN /\ clients' = [clients EXCEPT ![client] =
                        [call EXCEPT !.pc = "done", !.error = "UnexpectedResponse"]]
                /\ UNCHANGED collections
           ELSE /\ collections' = create_collection_unchecked(collections,
                                                              call.store_type).colls
                /\ clients' = [clients EXCEPT ![client] =
                        [call EXCEPT !.pc = "embed_documents", !.created = TRUE]]
        /\ UNCHANGED <<nextId, ingested, files, incidents_data, runbooks_data, last,
                       export_run, wf>>

\* embed_documents and the loop that builds one point per document
AddEmbedDocuments(client) ==
    LET call == clients[client]
        texts == [i \in 1..Len(call.documents) |-> Get(call.documents[i], "content", "")]
    IN  /\ call.pc = "embed_documents"
        /\ nextId + Len(call.documents) <= MaxIds
        /\ \E embed_ok \in BOOLEAN :
            IF embed_ok
            THEN /\ clients' = [clients EXCEPT ![client] =
                        [call EXCEPT !.pc = "upsert",
                                     !.points = BuildPoints(call.documents,
                                                    embed_documents(DefaultModel, texts),
                                                    nextId + 1)]]
                 /\ nextId' = nextId + Len(call.documents)
            ELSE /\ clients' = [clients EXCEPT ![client] =
                        [call EXCEPT !.pc = "done", !.error = "EmbeddingProviderError"]]
                 /\ UNCHANGED nextId
        /\ UNCHANGED <<collections, ingested, files, incidents_data, runbooks_data,
                       last, export_run, wf>>

\* self.client.upsert(collection_name, points)
AddUpsert(client) ==
    LET call == clients[client]
        name == CollectionName(call.store_type)
    IN  /\ call.pc = "upsert"
        /\ collections' = [collections EXCEPT ![name].points =
                               UpsertPoints(collections[name].points, call.points)]
        /\ ingested' = ingested \cup
                {[id |-> call.points[i].id, content |-> call.documents[i].content,
                  metadata |-> call.documents[i].metadata] :
                    i \in 1..Len(call.documents)}
        /\ clients' = [clients EXCEPT ![client] = [call EXCEPT !.pc = "done"]]
        /\ UNCHANGED <<nextId, files, incidents_data, runbooks_data, last,
                       export_run, wf>>

\* the call has returned or raised, and the client sends nothing more
AddReturn(client) ==
    /\ clients[client].pc = "done"
    /\ clients' = [clients EXCEPT ![client].pc = "returned"]
    /\ UNCHANGED <<collections, nextId, ingested, files, incidents_data, runbooks_data,
                   last, export_run, wf>>

NextRace ==
    \E client \in Clients :
        \/ AddStart(client)
        \/ AddGetCollections(client)
        \/ AddCreateCollection(client)
        \/ AddEmbedDocuments(client)
        \/ AddUpsert(client)
        \/ AddReturn(client)

SpecRace == Init /\ [][NextRace]_vars

(***************************************************************************)
(* Properties.                                                             *)
(***************************************************************************)
IsFileSearch == last.call.op = "search"

\* the records FileVectorStore.search resolved for the last call
TargetData == SourceData(SelectSource(last.call.collection_name))

AllData == Range(incidents_data) \cup Range(runbooks_data)

\* C1: FileVectorStore.search returns at most `limit` results and their
\* scores never increase from one result to the next.
C1_AtMostLimitSortedByScore ==
    (IsFileSearch /\ last.error = "none") =>
        /\ Len(last.result) <= last.call.limit
        /\ \A n \in 1..Len(last.result) :
              n < Len(last.result) => last.result[n].score >= last.result[n + 1].score

C1_Witness ==
    /\ IsFileSearch
    /\ last.error = "none"
    /\ Len(TargetData) >= 2
    /\ Len(last.result) = 2
    /\ last.result[1].score > last.result[2].score

IsSimilaritySearch == last.call.op = "similarity_search"

StoredPoints(store_type) == Range(collections[CollectionName(store_type)].points)

\* the metadata a stored point was ingested with
IngestedMetadata(point) == (CHOOSE e \in ingested : e.id = point.id).metadata

\* C2 as stated: with a non-empty filter_dict every result's metadata holds
\* every filter key with the required value, and the result is empty when
\* the metadata of no stored record satisfies the filter.
C2_FilterIsHardConstraint ==
    (IsSimilaritySearch /\ last.error = "none" /\ DOMAIN last.call.filter_dict # {}) =>
        /\ \A n \in 1..Len(last.result) : \A key \in DOMAIN last.call.filter_dict :
              /\ key \in DOMAIN last.result[n].metadata
              /\ last.result[n].metadata[key] = last.call.filter_dict[key]
        /\ (\A p \in StoredPoints(last.call.store_type) :
                \E key \in DOMAIN last.call.filter_dict :
                    \/ key \notin DOMAIN IngestedMetadata(p)
                    \/ IngestedMetadata(p)[key] # last.call.filter_dict[key])
            => last.result = <<>>

\* C2 amended: the same for every filter key other than "content"; a
\* condition on "content" is matched against the record's text, which a
\* result carries in its content field and not in its metadata.
C2_FilterIsHardConstraintOnPayload ==
    (IsSimilaritySearch /\ last.error = "none" /\ DOMAIN last.call.filter_dict # {}) =>
        /\ \A n \in 1..Len(last.result) : \A key \in DOMAIN last.call.filter_dict :
              IF key = "content"
              THEN last.result[n].content = last.call.filter_dict[key]
              ELSE /\ key \in DOMAIN last.result[n].metadata
                   /\ last.result[n].metadata[key] = last.call.filter_dict[key]
        /\ (\A p \in StoredPoints(last.call.store_type) :
                \E key \in DOMAIN last.call.filter_dict :
                    IF key = "content"
                    THEN (CHOOSE e \in ingested : e.id = p.id).content
                            # last.call.filter_dict[key]
                    ELSE \/ key \notin DOMAIN IngestedMetadata(p)
                         \/ IngestedMetadata(p)[key] # last.call.filter_dict[key])
            => last.result = <<>>

C2_Witness ==
    /\ IsSimilaritySearch
    /\ last.error = "none"
    /\ Cardinality(DOMAIN last.call.filter_dict) = 2
    /\ Len(last.result) = 1
    /\ last.call.k >= 2
    /\ Len(collections[CollectionName(last.call.store_type)].points) = 2

\* C3: when a filter is given and no record of the non-empty target
\* collection matches it, the full collection is ranked: every record is
\* scored and min(limit, collection size) results are returned.
C3_FallbackToFullCollection ==
    (/\ IsFileSearch
     /\ last.error = "none"
     /\ DOMAIN last.call.filters # {}
     /\ TargetData # <<>>
     /\ \A i \in 1..Len(TargetData) : ~ItemMatches(TargetData[i], last.call.filters))
    => /\ Len(last.result) = Min(last.call.limit, Len(TargetData))
       /\ Len(last.similarities) = Len(TargetData)
       /\ \A n \in 1..Len(last.result) :
             \E i \in 1..Len(TargetData) : TargetData[i].id = last.result[n].id

C3_Witness ==
    /\ IsFileSearch
    /\ last.error = "none"
    /\ DOMAIN last.call.filters # {}
    /\ Len(TargetData) = 2
    /\ \A i \in 1..Len(TargetData) : ~ItemMatches(TargetData[i], last.call.filters)
    /\ Len(last.result) = 2

\* C4: every record that was ingested by add_documents, exported and loaded
\* by the flat-file store has the id, the text (the document's content) and
\* the metadata map of the ingested document.
C4_RoundTripIdentical ==
    \A r \in AllData : \A e \in ingested :
        r.id = e.id => (r.text = e.content /\ r.metadata = e.metadata)

\* the result similarity_search formats for a stored point and a query vector
ServerResult(point, query_vector) ==
    FormatResult([id |-> point.id, payload |-> point.payload,
                  score |-> Cosine(query_vector.v, point.vector.v)])

\* C5: a result of the flat-file search has the field names of the result
\* the server-hosted search emits for the same stored record and query, and
\* a consumer reading content, metadata and score gets the same values.
C5_SameResultShape ==
    (IsFileSearch /\ last.error = "none") =>
        \A n \in 1..Len(last.result) :
            \A name \in CollectionNames : \A p \in Range(collections[name].points) :
                p.id = last.result[n].id =>
                    LET server == ServerResult(p, last.call.query_vector)
                        file == last.result[n]
                    IN  /\ DOMAIN file = DOMAIN server
                        /\ Get(file, "content", "") = server.content
                        /\ Get(file, "metadata", EmptyMap) = server.metadata
                        /\ Get(file, "score", 0) = server.score

\* C6: create_collection on a collection that exists does not raise, sends
\* no create request and leaves every collection as it was.
C6_CreateTwiceIsNoOp ==
    [][(/\ last'.call.op = "create_collection"
        /\ collections[CollectionName(last'.call.store_type)].exists)
       => (/\ last'.error = "none"
           /\ \A i \in 1..Len(last'.requests) : last'.requests[i] # "create_collection"
           /\ collections' = collections)]_vars

C6_Witness ==
    /\ last.call.op = "create_collection"
    /\ last.requests = <<"get_collections">>
    /\ collections[CollectionName(last.call.store_type)].points # <<>>

\* C7: add_documents with an empty list fails with the empty-input error
\* (ValueError) and has no side effect: no request is sent, no id is
\* drawn, and the collections are as before.
C7_EmptyInputRejected ==
    [][(last'.call.op = "add_documents" /\ last'.call.documents = <<>>)
       => (/\ last'.error = "ValueError"
           /\ last'.requests = <<>>
           /\ collections' = collections
           /\ nextId' = nextId
           /\ ingested' = ingested)]_vars

C7_Witness ==
    /\ last.call.op = "add_documents"
    /\ last.call.documents = <<>>
    /\ last.error = "ValueError"
    /\ ~collections[CollectionName(last.call.store_type)].exists

\* the last search had a query vector whose length differs from the
\* embedding length of the records of its (known, non-empty) collection
DimensionMismatch ==
    /\ IsFileSearch
    /\ TargetData # <<>>
    /\ \A i \in 1..Len(TargetData) : TargetData[i].embedding.dim # last.call.query_vector.dim

UnknownCollection ==
    /\ IsFileSearch
    /\ ~LowerContains(last.call.collection_name, "incident")
    /\ ~LowerContains(last.call.collection_name, "runbook")

\* C9 as stated: a search against a name the flat-file store does not know
\* fails with UnknownCollectionError.
C9_UnknownCollectionError ==
    UnknownCollection => last.error = "UnknownCollectionError"

\* C9 amended: such a search raises nothing; it logs an error and returns
\* an empty list without scoring any record.
C9_UnknownCollectionEmptyList ==
    UnknownCollection =>
        /\ last.error = "none"
        /\ last.log = "Unknown collection"
        /\ last.similarities = <<>>
        /\ last.result = <<>>

C9_Witness ==
    /\ UnknownCollection
    /\ last.result = <<>>
    /\ last.call.limit >= 1
    /\ incidents_data # <<>>
    /\ runbooks_data # <<>>

\* C10: search_incidents and search_runbooks return an empty list, raise
\* nothing and send neither an embedding nor a search request when their
\* collection does not exist.
C10_FacadeAbsenceIsEmpty ==
    (/\ last.call.op \in {"search_incidents", "search_runbooks"}
     /\ ~collections[CollectionName(last.call.store_type)].exists)
    => /\ last.error = "none"
       /\ last.result = <<>>
       /\ last.requests = <<"get_collections">>

C10_Witness ==
    /\ last.call.op = "search_runbooks"
    /\ ~collections["devops_runbooks"].exists
    /\ collections["devops_incidents"].points # <<>>
    /\ last.result = <<>>


\* C11: in the server-hosted variant, get_collection_info and
\* delete_collection on a collection that does not exist end in an error
\* surfaced to the caller, and the store is left unchanged.
C11_AbsenceIsHardError ==
    [][(/\ last'.call.op \in {"manager_get_collection_info", "delete_collection"}
        /\ ~collections[CollectionName(last'.call.store_type)].exists)
       => (last'.error # "none" /\ collections' = collections)]_vars

\* the backing file of a data source of the flat-file store
SourceFile(source) == IF source = "incidents" THEN "incidents.json" ELSE "runbooks.json"

\* C12: in the flat-file variant, with a collection's backing file missing
\* at construction, construction succeeds, that collection is empty,
\* get_collection_info reports points_count 0 and status "empty", search on
\* it returns an empty list, and the other collection is loaded from its own
\* file whether or not the first file is there.
C12_MissingFileIsEmptyCollection ==
    /\ last.call.op = "FileVectorStore" => last.error = "none"
    /\ \A source \in StoreTypes :
        IF files[SourceFile(source)].exists
        THEN SourceData(source) = files[SourceFile(source)].data
        ELSE /\ SourceData(source) = <<>>
             /\ (/\ last.call.op \in {"get_collection_info", "search"}
                 /\ SelectSource(last.call.collection_name) = source)
                => /\ last.error = "none"
                   /\ last.call.op = "get_collection_info"
                        => last.result = [points_count |-> 0, status |-> "empty"]
                   /\ last.call.op = "search" => last.result = <<>>

C12_Witness ==
    /\ last.call.op = "get_collection_info"
    /\ last.call.collection_name = "devops_incidents"
    /\ ~files["incidents.json"].exists
    /\ files["runbooks.json"].exists
    /\ Len(runbooks_data) = MaxRecords
    /\ last.result.status = "empty"

\* the position a record of the searched collection was stored at
StoragePosition(id) == CHOOSE i \in 1..Len(TargetData) : TargetData[i].id = id

\* C13: FileVectorStore.search returns records of equal score in storage
\* order, and when the limit cuts through a group of equal scores the
\* earlier-stored records are the ones kept.
C13_TiesInStorageOrder ==
    (IsFileSearch /\ last.error = "none") =>
        LET candidates == FilteredData(TargetData, last.call.filters)
            returned == {last.result[n].id : n \in 1..Len(last.result)}
        IN  /\ \A n, m \in 1..Len(last.result) :
                  (n < m /\ last.result[n].score = last.result[m].score)
                    => StoragePosition(last.result[n].id) < StoragePosition(last.result[m].id)
            /\ \A n \in 1..Len(last.result), i \in 1..Len(last.similarities) :
                  (/\ candidates[i].id \notin returned
                   /\ last.similarities[i] = last.result[n].score)
                    => StoragePosition(last.result[n].id) < StoragePosition(candidates[i].id)

\* the ids of all points the service holds
StoredIds(colls) ==
    UNION {{colls[name].points[i].id : i \in 1..Len(colls[name].points)} :
              name \in CollectionNames}

\* C17: a successful add_documents with n >= 1 documents into a collection
\* of m records leaves m + n records: the m earlier records are unchanged,
\* the n new ones have ids that are distinct and were not in use, nothing
\* is merged with an equal earlier record, and the other collection is
\* untouched.
C17_AddDocumentsAppends ==
    [][(last'.call.op = "add_documents" /\ last'.error = "none") =>
        LET name == CollectionName(last'.call.store_type)
            old == collections[name].points
            new == collections'[name].points
            n == Len(last'.call.documents)
        IN  /\ n >= 1
            /\ Len(new) = Len(old) + n
            /\ \A i \in 1..Len(old) : new[i] = old[i]
            /\ \A i, j \in 1..Len(new) : i # j => new[i].id # new[j].id
            /\ \A i \in Len(old) + 1..Len(new) :
                  /\ new[i].id \notin StoredIds(collections)
                  /\ new[i].payload = Payload(last'.call.documents[i - Len(old)].content,
                                              last'.call.documents[i - Len(old)].metadata)
            /\ \A other \in CollectionNames \ {name} :
                  collections'[other] = collections[other]]_vars

C17_Witness ==
    /\ last.call.op = "add_documents"
    /\ last.error = "none"
    /\ Len(last.call.documents) = 1
    /\ LET points == collections[CollectionName(last.call.store_type)].points
       IN  /\ Len(points) = 2
           /\ points[1].payload = points[2].payload
           /\ points[1].id # points[2].id

\* the calls of the server-hosted variant that only read
ReadCalls == {"similarity_search", "search_incidents", "search_runbooks",
              "collection_exists", "manager_get_collection_info"}

\* C18: collection lifecycle.  No collection exists at the start; a call
\* makes its collection exist when it is create_collection or a non-empty
\* add_documents, makes it absent when it is delete_collection, and
\* otherwise existence is as before; search, exists and info calls leave
\* every collection, its points included, as it was.
C18_CollectionLifecycle ==
    /\ \A name \in CollectionNames : ~collections[name].exists
    /\ [][\A name \in CollectionNames :
            LET op == last'.call.op
                target == /\ op # "none"
                          /\ CollectionName(last'.call.store_type) = name
            IN  /\ collections'[name].exists =
                      IF target /\ op = "create_collection" THEN TRUE
                      ELSE IF target /\ op = "add_documents"
                                     /\ last'.call.documents # <<>> THEN TRUE
                      ELSE IF target /\ op = "delete_collection" THEN FALSE
                      ELSE collections[name].exists
                /\ op \in ReadCalls => collections'[name] = collections[name]]_vars

C18_Witness ==
    /\ last.call.op = "collection_exists"
    /\ last.result = FALSE
    /\ \E e \in ingested : TRUE
    /\ \A name \in CollectionNames : ~collections[name].exists

\* C14: search never mutates the store.  A search call of either backend,
\* on any of its paths, leaves the records of both collections (ids,
\* embeddings, texts, metadata) in the flat-file store, in its files and in
\* the service exactly as they were before the call.
C14_SearchLeavesStoreUnchanged ==
    [][last'.call.op \in {"search", "similarity_search"} =>
        /\ incidents_data' = incidents_data
        /\ runbooks_data' = runbooks_data
        /\ files' = files
        /\ collections' = collections]_vars

C14_Witness ==
    /\ IsFileSearch
    /\ DOMAIN last.call.filters # {}
    /\ _apply_filters(TargetData, last.call.filters) = <<>>
    /\ Len(last.result) = 2
    /\ \E name \in CollectionNames : collections[name].points # <<>>

\* C15: in every search result of either backend the metadata field equals
\* the metadata map the record was ingested with, without the record's
\* text, which appears in the separate text field (`text` in the flat-file
\* store, `content` in the server-hosted one); records of the flat-file
\* store are those export_collection wrote.
C15_MetadataAsIngested ==
    /\ (IsFileSearch /\ last.error = "none") =>
            \A n \in 1..Len(last.result) : \E e \in ingested :
                /\ e.id = last.result[n].id
                /\ last.result[n].metadata = e.metadata
                /\ "content" \notin DOMAIN last.result[n].metadata
                /\ last.result[n].text = e.content
    /\ (IsSimilaritySearch /\ last.error = "none") =>
            \A n \in 1..Len(last.result) : \E e \in ingested :
                /\ last.result[n].metadata = e.metadata
                /\ "content" \notin DOMAIN last.result[n].metadata
                /\ last.result[n].content = e.content

\* the export_collection call that has just returned
Exported == last.call.op = "export_collection" /\ last.error = "none"

\* C16: whatever page sizes the service serves, export_collection follows
\* the cursor from page to page (all points before the cursor are already
\* exported, in order), every export that was started terminates, and at
\* its end the written sequence holds every point of the collection
\* exactly once and the returned count is the collection's point count.
C16_ExportPagesThroughAll ==
    /\ [](export_run.pc = "scrolling" =>
            /\ export_run.offset = IF export_run.points = <<>> THEN 0
                                   ELSE Len(export_run.points) + 1
            /\ export_run.points =
                  ExportPoints(SubSeq(collections[export_run.collection_name].points,
                                      1, Len(export_run.points))))
    /\ [](Exported =>
            LET stored == collections[last.call.collection_name].points
                written == files[OutputFile(last.call.collection_name)].data
            IN  /\ last.result = Len(stored)
                /\ Len(written) = Len(stored)
                /\ \A i \in 1..Len(stored) :
                      Cardinality({j \in 1..Len(written) :
                                      written[j] = ExportPoint(stored[i])}) = 1)
    /\ (export_run.pc = "scrolling" ~> last.call.op = "export_collection")

C16_Witness ==
    /\ Exported
    /\ last.result = MaxScrollPoints
    /\ last.requests = MaxScrollPoints
    /\ files[OutputFile(last.call.collection_name)].data # <<>>

\* C19: every workflow run executes log_analyzer, retrieve_context,
\* diagnostic and action once each in that order and then reaches END,
\* whether or not steps raised, and invoke returns the final state
\* without raising.
C19_FourStepsInOrder ==
    /\ [](wf.pc # "idle" =>
            /\ wf.executed = SubSeq(Nodes, 1, Len(wf.executed))
            /\ wf.pc = IF Len(wf.executed) = Len(Nodes) THEN "END"
                       ELSE Nodes[Len(wf.executed) + 1])
    /\ [](last.call.op = "invoke" => last.error = "none" /\ last.executed = Nodes)
    /\ (wf.pc = "log_analyzer" ~> wf.pc = "END")
    /\ (wf.pc = "END" ~> last.call.op = "invoke")

C19_Witness ==
    /\ last.call.op = "invoke"
    /\ last.executed = Nodes
    /\ {last.raised[i].node : i \in 1..Len(last.raised)} = Range(Nodes)

\* the messages of the exceptions raised so far, in execution order
RaisedMessages(raised) == [i \in 1..Len(raised) |-> raised[i].message]

\* the position of a node in the fixed order
NodeIndex(node) == CHOOSE i \in 1..Len(Nodes) : Nodes[i] = node

\* C20: the errors list of the workflow state is empty at the start and
\* holds exactly one entry, str(e), for each step that raised, in
\* execution order, up to and including the final state; it is empty if
\* and only if no step raised.
C20_ErrorsOnePerRaisedStep ==
    /\ wf.pc # "idle" =>
        /\ wf.state.errors = RaisedMessages(wf.raised)
        /\ \A i \in 1..Len(wf.raised) : wf.raised[i].node \in Range(wf.executed)
        /\ \A i, j \in 1..Len(wf.raised) :
              i < j => NodeIndex(wf.raised[i].node) < NodeIndex(wf.raised[j].node)
        /\ wf.executed = <<>> => wf.state.errors = <<>>
    /\ last.call.op = "invoke" =>
        /\ last.result.errors = RaisedMessages(last.raised)
        /\ (last.result.errors = <<>>) <=> (last.raised = <<>>)

C20_Witness ==
    /\ last.call.op = "invoke"
    /\ last.result.errors = <<"APIConnectionError", "'log_analysis'", "APIConnectionError">>
    /\ last.result.current_step = "action_failed"

\* the nodes whose step raised in the run that has just returned
FailedNodes == {last.raised[i].node : i \in 1..Len(last.raised)}

\* isinstance(value, list)
IsList(value) == DOMAIN value = 1..Len(value)

\* C21: whatever steps fail, the final state invoke returns holds
\* root_cause (a string), similar_incidents (a list) and relevant_runbooks
\* (a list); after a failed retrieval both lists are empty, and after a
\* failed diagnostic root_cause is "Unable to determine" and confidence 0.0.
C21_FinalStateKeys ==
    last.call.op = "invoke" =>
        /\ {"root_cause", "similar_incidents", "relevant_runbooks"}
                \subseteq DOMAIN last.result
        /\ last.result.root_cause \in STRING
        /\ IsList(last.result.similar_incidents)
        /\ IsList(last.result.relevant_runbooks)
        /\ "retrieve_context" \in FailedNodes =>
                /\ last.result.similar_incidents = <<>>
                /\ last.result.relevant_runbooks = <<>>
        /\ "diagnostic" \in FailedNodes =>
                /\ last.result.root_cause = "Unable to determine"
                /\ last.result.confidence = "float:0.0"

C21_Witness ==
    /\ last.call.op = "invoke"
    /\ FailedNodes = {"retrieve_context", "diagnostic"}
    /\ last.result.root_cause = "Unable to determine"
    /\ last.result.current_step = "action_complete"
    /\ \E name \in CollectionNames : collections[name].points # <<>>

\* a record holds every filter key with the required value, of the same type
ExactMatch(item, filters) ==
    \A key \in DOMAIN filters :
        key \in DOMAIN item.metadata /\ item.metadata[key] = filters[key]

\* C22: _apply_filters keeps exactly the records that hold every filter
\* key with a value equal to the required one and of the same type (1 does
\* not match 1.0, True or "1"), in storage order, and never raises; an
\* empty filter keeps every record.
C22_TypeSensitiveFilter ==
    last.call.op = "_apply_filters" =>
        /\ last.error = "none"
        /\ last.result = SelectSeq(last.call.data,
                                   LAMBDA item : ExactMatch(item, last.call.filters))

\* the filter map with one key per filter argument that is not empty
ExpectedFilter(first_key, first_value, second_key, second_value) ==
    [key \in {k \in {first_key, second_key} :
                 (IF k = first_key THEN first_value ELSE second_value) # ""} |->
        IF key = first_key THEN first_value ELSE second_value]

\* the filter map the facade call in `last` is to search with
ExpectedFilterOfCall ==
    IF last.call.store_type = "incidents"
    THEN ExpectedFilter("service", last.call.service_filter,
                        "severity", last.call.severity_filter)
    ELSE ExpectedFilter("service", last.call.service_filter,
                        "category", last.call.category_filter)

\* C23: both facades translate their filter arguments the same way:
\* search_incidents takes service and severity, search_runbooks takes
\* service and category, and the search runs with the map that holds one
\* key per argument supplied non-empty (no filter when there is none).
C23_FacadeFilterMap ==
    /\ last.call.op \in {"file_search_incidents", "file_search_runbooks"} =>
            /\ last.error # "TypeError"
            /\ last.call.filters = ExpectedFilterOfCall
    /\ (/\ last.call.op \in {"search_incidents", "search_runbooks"}
        /\ collection_exists(last.call.store_type)) =>
            \E outcome \in similarity_search(last.call.store_type, last.call.query,
                                             last.call.k, ExpectedFilterOfCall) :
                outcome.result = last.result

\* the list the constructor loaded for a source
LoadedData(source) ==
    IF source = "unknown" THEN <<>> ELSE LoadFile(files[SourceFile(source)])

\* what the call would return when it runs alone on the constructed store
AloneOutcomes(call) ==
    ClientOutcomes(call, LoadedData(SelectSource(call.collection_name)))

\* C24: on a constructed FileVectorStore, search and get_collection_info
\* calls of several callers, interleaved in any way, each return what the
\* same call returns when run alone, and the loaded lists never change.
C24_ConcurrentReadsIsolated ==
    /\ [](\A client \in Clients :
            clients[client].pc = "done" =>
                clients[client].outcome \in AloneOutcomes(clients[client].call))
    /\ [][/\ incidents_data' = incidents_data
          /\ runbooks_data' = runbooks_data]_vars

\* two searches with different filters on the same non-empty list have both
\* finished while the other was in flight
C24_Witness ==
    /\ \A client \in Clients :
            /\ clients[client].pc = "done"
            /\ clients[client].call.op = "search"
            /\ clients[client].call.collection_name = "devops_incidents"
            /\ clients[client].outcome.result # <<>>
    /\ clients["c1"].call.filters # clients["c2"].call.filters
    /\ clients["c1"].outcome.result # clients["c2"].outcome.result

\* the state key under which an agent's node stores the parsed answer
ParsedKey(node) ==
    CASE node = "log_analyzer" -> "log_analysis"
      [] node = "diagnostic" -> "diagnostic_results"
      [] node = "action" -> "action_plan"

\* C25: when the language model's answer to the log analyzer, the
\* diagnostic or the action agent holds no parseable JSON, _parse_response
\* returns the agent's fallback structure with a parse_error field and does
\* not raise: the step completes and adds nothing to errors.
C25_UnparseableAnswerFallsBack ==
    last.call.op = "invoke" =>
        \A i \in 1..Len(last.responses) :
            last.responses[i].response = "text" =>
                /\ last.responses[i].node \notin FailedNodes
                /\ ParsedKey(last.responses[i].node) \in DOMAIN last.result
                /\ "parse_error" \in
                        DOMAIN last.result[ParsedKey(last.responses[i].node)]

\* C26: the DocumentRetriever of the server-hosted variant (constructor
\* check and get_status) and push_data call get_collection_info only once
\* the collection was observed to exist (collection_exists returned true or
\* add_documents has just completed); with one client at a time none of
\* them meets the not-found error, and get_status reports
\* {"status": "not_created"} for an absent collection.
C26_InfoOnlyAfterExistenceObserved ==
    /\ [](\A client \in Clients :
            /\ clients[client].pc = "get_collection_info" => clients[client].observed
            /\ clients[client].pc # "idle" =>
                    clients[client].error # "UnexpectedResponse"
            /\ (/\ clients[client].pc = "done"
                /\ clients[client].program = "get_status") =>
                    \A store_type \in StoreTypes :
                        ~collections[CollectionName(store_type)].exists =>
                            /\ store_type \in DOMAIN clients[client].status
                            /\ clients[client].status[store_type]
                                    = [status |-> "not_created"])
    /\ [][\A client \in Clients :
            (/\ clients[client].pc = "get_collection_info"
             /\ clients'[client].pc # "get_collection_info") =>
                collections[CollectionName(clients[client].store_type)].exists]_vars

\* get_status has returned with one collection absent and the other holding points
C26_Witness ==
    \E client \in Clients :
        /\ clients[client].pc = "done"
        /\ clients[client].program = "get_status"
        /\ DOMAIN clients[client].status = StoreTypes
        /\ clients[client].status["incidents"] = [status |-> "not_created"]
        /\ "points_count" \in DOMAIN clients[client].status["runbooks"]
        /\ clients[client].status["runbooks"].points_count > 0

\* C27: in the flat-file variant, when at least one record of the target
\* collection satisfies the filter, every result of FileVectorStore.search
\* satisfies it; a result that violates the filter is returned only when no
\* record matches.
C27_ResultsMatchWhenSomeRecordMatches ==
    (/\ IsFileSearch
     /\ last.error = "none"
     /\ \E i \in 1..Len(TargetData) : ItemMatches(TargetData[i], last.call.filters))
    => \A n \in 1..Len(last.result) : ItemMatches(last.result[n], last.call.filters)

\* a two-key filter kept one of two records that agree on one of the keys
C27_Witness ==
    /\ IsFileSearch
    /\ last.error = "none"
    /\ Cardinality(DOMAIN last.call.filters) = 2
    /\ Len(TargetData) = 2
    /\ \E i \in 1..2 : ItemMatches(TargetData[i], last.call.filters)
    /\ \E i \in 1..2 : ~ItemMatches(TargetData[i], last.call.filters)
    /\ last.call.limit >= 2
    /\ Len(last.result) = 1

\* both clients' add_documents calls were made while the collection did not
\* exist, the embedding provider answered both, and both have ended
BothAddedConcurrently ==
    \A client \in Clients :
        /\ clients[client].pc = "returned"
        /\ ~clients[client].existed
        /\ clients[client].error # "EmbeddingProviderError"

\* C28: when two clients concurrently call add_documents with non-empty
\* batches on the same collection that does not exist yet, then under every
\* interleaving of their requests both calls complete without error, the
\* collection is created once, and both batches are in it afterwards.
C28_ConcurrentAddsBothSucceed ==
    BothAddedConcurrently =>
        /\ \A client \in Clients : clients[client].error = "none"
        /\ Cardinality({client \in Clients : clients[client].created}) = 1
        /\ \A client \in Clients : \A i \in 1..Len(clients[client].points) :
                \E j \in 1..Len(collections["devops_incidents"].points) :
                    collections["devops_incidents"].points[j] = clients[client].points[i]

\* the errors list of the returned state holds the message `node` raised
ErrorsEntryFrom(node) ==
    \E i \in 1..Len(last.raised) :
        /\ last.raised[i].node = node
        /\ i <= Len(last.result.errors)
        /\ last.result.errors[i] = last.raised[i].message

\* C29: when the log_analyzer step raises, the diagnostic step of the same
\* run fails too, since log_analysis was never written: the final state has
\* root_cause "Unable to determine", confidence 0.0 and an errors entry
\* from each of the two steps, and the retrieval and action steps still run.
C29_LogAnalyzerFailureFailsDiagnostic ==
    (last.call.op = "invoke" /\ "log_analyzer" \in FailedNodes) =>
        /\ "diagnostic" \in FailedNodes
        /\ last.result.root_cause = "Unable to determine"
        /\ last.result.confidence = "float:0.0"
        /\ ErrorsEntryFrom("log_analyzer")
        /\ ErrorsEntryFrom("diagnostic")
        /\ {"retrieve_context", "action"} \subseteq Range(last.executed)

\* only the two steps failed: retrieval found documents and the action
\* step completed
C29_Witness ==
    /\ last.call.op = "invoke"
    /\ FailedNodes = {"log_analyzer", "diagnostic"}
    /\ last.result.errors = <<"APIConnectionError", "'log_analysis'">>
    /\ last.result.similar_incidents # <<>>
    /\ last.result.current_step = "action_complete"

\* C30: add_documents creates the collection before it computes the
\* embeddings: when the embedding call fails for a non-empty batch on an
\* absent collection, the call raises with no point written and the empty
\* collection now exists; on a collection that existed, a failed call
\* leaves its points unchanged.
C30_EmbeddingFailureAfterCreate ==
    [][(last'.call.op = "add_documents" /\ last'.error = "EmbeddingProviderError") =>
        LET name == CollectionName(last'.call.store_type)
        IN  /\ last'.call.documents # <<>>
            /\ collections'[name].exists
            /\ collections'[name].points = collections[name].points
            /\ ~collections[name].exists =>
                    /\ collections'[name].points = <<>>
                    /\ last'.requests =
                            <<"get_collections", "create_collection", "embed_documents">>
            /\ collections[name].exists =>
                    last'.requests = <<"get_collections", "embed_documents">>
            /\ nextId' = nextId
            /\ ingested' = ingested]_vars

\* one failed call has created the empty incident collection, another has
\* left the points of the runbook collection as they were
C30_Witness ==
    /\ last.call.op = "add_documents"
    /\ last.error = "EmbeddingProviderError"
    /\ last.call.store_type = "runbooks"
    /\ collections["devops_runbooks"].points # <<>>
    /\ collections["devops_incidents"].exists
    /\ collections["devops_incidents"].points = <<>>
====
